---- MODULE Spec2Model ----
(***************************************************************************)
(* Model of the qr_trees trajectory optimizers: the single-chain iLQR      *)
(* solver (templated/iLQR_impl.hh) and the hindsight (multi-branch) iLQR   *)
(* solver (templated/iLQR_hindsight_impl.hh), instantiated at              *)
(* xdim = udim = 1.                                                        *)
(*                                                                         *)
(* A double is modelled as an extended rational <<n, d>>: d > 0 is the     *)
(* exact value n/d in lowest terms, <<1,0>> is +infinity, <<-1,0>> is      *)
(* -infinity and <<0,0>> is NaN, with the IEEE rules for the special       *)
(* values (NaN compares false with everything, inf - inf = NaN, x/0 = inf, *)
(* 0/0 = NaN).  Rounding and signed zeros are not modelled.                *)
(***************************************************************************)
EXTENDS Integers, Sequences, FiniteSets, TLC

\* ------------------------------------------------------------ doubles

Abs(i) == IF i < 0 THEN -i ELSE i

Sgn(i) == IF i < 0 THEN -1 ELSE IF i > 0 THEN 1 ELSE 0

RECURSIVE GCD(_, _)
GCD(a, b) == IF b = 0 THEN a ELSE GCD(b, a % b)

\* The double n/d in lowest terms; d = 0 gives the special values.
Norm(n, d) ==
    IF d = 0 THEN <<Sgn(n), 0>>
    ELSE LET s == IF d < 0 THEN -1 ELSE 1
             g == GCD(Abs(n), Abs(d))
         IN  <<(s * n) \div g, (s * d) \div g>>

Rat(n, d) == Norm(n, d)
Num(i) == <<i, 1>>
NaN == <<0, 0>>
Inf == <<1, 0>>
Zero == <<0, 1>>
One == <<1, 1>>

IsNaN(a) == a[2] = 0 /\ a[1] = 0
IsInf(a) == a[2] = 0 /\ a[1] # 0

RNeg(a) == <<-a[1], a[2]>>

RAbs(a) == <<Abs(a[1]), a[2]>>

RAdd(a, b) ==
    IF IsNaN(a) \/ IsNaN(b) THEN NaN
    ELSE IF IsInf(a) /\ IsInf(b) THEN (IF a[1] = b[1] THEN a ELSE NaN)
    ELSE IF IsInf(a) THEN a
    ELSE IF IsInf(b) THEN b
    ELSE LET g == GCD(a[2], b[2])
         IN  Norm(a[1] * (b[2] \div g) + b[1] * (a[2] \div g), (a[2] \div g) * b[2])

RSub(a, b) == RAdd(a, RNeg(b))

RMul(a, b) ==
    IF IsNaN(a) \/ IsNaN(b) THEN NaN
    ELSE IF IsInf(a) \/ IsInf(b)
         THEN (IF a[1] = 0 \/ b[1] = 0 THEN NaN ELSE <<Sgn(a[1]) * Sgn(b[1]), 0>>)
    ELSE LET g1 == GCD(Abs(a[1]), b[2])
             g2 == GCD(Abs(b[1]), a[2])
         IN  Norm((a[1] \div g1) * (b[1] \div g2), (a[2] \div g2) * (b[2] \div g1))

RDiv(a, b) ==
    IF IsNaN(a) \/ IsNaN(b) THEN NaN
    ELSE IF IsInf(b) THEN (IF IsInf(a) THEN NaN ELSE Zero)
    ELSE IF IsInf(a) THEN <<a[1] * (IF b[1] < 0 THEN -1 ELSE 1), 0>>
    ELSE IF b[1] = 0 THEN <<Sgn(a[1]), 0>>
    ELSE RMul(a, <<Sgn(b[1]) * b[2], Abs(b[1])>>)

\* n1/d1 < n2/d2 for d1, d2 > 0, by whole parts and then remainders, so
\* that no product leaves the range of the integers.
RECURSIVE FracLess(_, _, _, _)
FracLess(n1, d1, n2, d2) ==
    LET q1 == n1 \div d1
        q2 == n2 \div d2
    IN  IF q1 # q2 THEN q1 < q2
        ELSE IF n2 - q2 * d2 = 0 THEN FALSE
        ELSE IF n1 - q1 * d1 = 0 THEN TRUE
        ELSE FracLess(d2, n2 - q2 * d2, d1, n1 - q1 * d1)

\* a < b on doubles: false as soon as one side is NaN.
RLess(a, b) ==
    IF IsNaN(a) \/ IsNaN(b) THEN FALSE
    ELSE IF IsInf(a) /\ IsInf(b) THEN a[1] < b[1]
    ELSE IF IsInf(a) THEN a[1] < 0
    ELSE IF IsInf(b) THEN b[1] > 0
    ELSE FracLess(a[1], a[2], b[1], b[2])

RLeq(a, b) == RLess(a, b) \/ (~IsNaN(a) /\ a = b)

Half == Rat(1, 2)

\* ------------------------------------------------------------ callbacks

\* A problem: linear dynamics x' = A x + B u, running cost
\* 1/2 Q (x - xT)^2 + 1/2 R (u - uN)^2 and final cost 1/2 QT (x - xT)^2.
Problem(A, B, Q, R, QT, xT, uN) ==
    [A |-> A, B |-> B, Q |-> Q, R |-> R, QT |-> QT, xT |-> xT, uN |-> uN]

dynamics(p, x, u) == RAdd(RMul(p.A, x), RMul(p.B, u))

Sq(a) == RMul(a, a)

cost(p, x, u, t) ==
    LET dx == RSub(x, p.xT)
        du == RSub(u, p.uN)
        position == RMul(Half, RMul(p.Q, Sq(dx)))
        control == RMul(Half, RMul(p.R, Sq(du)))
    IN  RAdd(position, control)

final_cost(p, x) == RMul(Half, RMul(p.QT, Sq(RSub(x, p.xT))))

\* Jacobians of the dynamics at (x, u).
linearize_dynamics(p, x, u) == [A |-> p.A, B |-> p.B]

\* Hessian blocks and gradients of the running cost at (x, u, t).
quadratize_cost(p, t, x, u) ==
    [Q |-> p.Q, R |-> p.R, P |-> Zero,
     g_x |-> RMul(p.Q, RSub(x, p.xT)),
     g_u |-> RMul(p.R, RSub(u, p.uN))]

\* Hessian and gradient of the final cost at x.
quadratize_final_cost(p, x) ==
    [Q |-> p.QT, g |-> RMul(p.QT, RSub(x, p.xT))]

\* ------------------------------------------------------------ sequences

\* std::vector<>(n, v)
Fill(n, v) == [i \in 1..n |-> v]

\* vector::erase(begin(), begin() + k)
Erase(s, k) == SubSeq(s, k + 1, Len(s))

\* s with slot t (0-based) set to v
SetAt(s, t, v) == [s EXCEPT ![t + 1] = v]

\* ------------------------------------------------------------ single chain

\* The sizes timesteps() insists on: it throws on any other.
SizesOk(s) ==
    /\ Len(s.ks) = Len(s.uhat)
    /\ Len(s.Ks) = Len(s.uhat)
    /\ Len(s.xhat) = Len(s.uhat) + 1

timesteps(s) == Len(s.uhat)

compute_control_stepsize(s, xt, t, alpha) ==
    LET Kt == s.Ks[t + 1]
        kt == s.ks[t + 1]
        zt == RSub(xt, s.xhat[t + 1])
        vt == RAdd(RMul(Kt, zt), RMul(alpha, kt))
    IN  RAdd(vt, s.uhat[t + 1])

RECURSIVE Rollout(_, _, _, _, _, _, _)
\* One pass of the loop of forward_pass with the control u of step t.
RolloutStep(s, p, alpha, t, states, controls, cost_to_go, u) ==
    Rollout(s, p, alpha, t + 1, Append(states, dynamics(p, states[t + 1], u)),
            Append(controls, u), RAdd(cost_to_go, cost(p, states[t + 1], u, t)))

Rollout(s, p, alpha, t, states, controls, cost_to_go) ==
    IF t = timesteps(s)
    THEN [states |-> states, controls |-> controls,
          cost |-> RAdd(cost_to_go, final_cost(p, states[t + 1]))]
    ELSE RolloutStep(s, p, alpha, t, states, controls, cost_to_go,
                     compute_control_stepsize(s, states[t + 1], t, alpha))

\* forward_pass: the rollout from x_init with step size alpha.
forward_pass(s, p, x_init, alpha) ==
    Rollout(s, p, alpha, 0, <<x_init>>, <<>>, Zero)

\* The value function at t from the one at t + 1 under the gains Kt, kt.
ValueUpdate(A, B, q, Vt1, Gt1, Kt, kt) ==
    LET tmp == RAdd(A, RMul(B, Kt))
    IN  [Kt |-> Kt, kt |-> kt,
         Vt |-> RAdd(RAdd(q.Q, RMul(Num(2), RMul(q.P, Kt))),
                     RAdd(RMul(Kt, RMul(q.R, Kt)), RMul(tmp, RMul(Vt1, tmp)))),
         Gt |-> RAdd(RAdd(RAdd(RMul(kt, q.P), RMul(kt, RMul(q.R, Kt))),
                          RAdd(q.g_x, RMul(q.g_u, Kt))),
                     RAdd(RMul(kt, RMul(B, RMul(Vt1, tmp))), RMul(Gt1, tmp)))]

\* Mutant: the feedforward gain leaves out the gradient of the value
\* function.
Gains_NoValueGradient(lin, q, VLM, Vt1, Gt1, inv_term) ==
    ValueUpdate(lin.A, lin.B, q, Vt1, Gt1,
                RMul(inv_term, RAdd(q.P, RMul(lin.B, RMul(VLM, lin.A)))),
                RMul(inv_term, q.g_u))

\* The gains of the backup from the LM-inflated control Hessian.
Gains(lin, q, VLM, Vt1, Gt1, inv_term) ==
    ValueUpdate(lin.A, lin.B, q, Vt1, Gt1,
                RMul(inv_term, RAdd(q.P, RMul(lin.B, RMul(VLM, lin.A)))),
                RMul(inv_term, RAdd(q.g_u, RMul(lin.B, Gt1))))

BackupAt(lin, q, VLM, Vt1, Gt1) ==
    Gains(lin, q, VLM, Vt1, Gt1,
          RMul(Num(-1), RDiv(One, RAdd(q.R, RMul(lin.B, RMul(VLM, lin.B))))))

\* One Bellman backup at (x, u, t) of problem p from (Vt1, Gt1).
Backup(p, x, u, t, mu, Vt1, Gt1) ==
    BackupAt(linearize_dynamics(p, x, u), quadratize_cost(p, t, x, u),
             RAdd(Vt1, mu), Vt1, Gt1)

bellman_backup(s, t, mu, Vt1, Gt1) ==
    Backup(s.p, s.xhat[t + 1], s.uhat[t + 1], t, mu, Vt1, Gt1)

\* The sweep t, t-1, ..., tmin of the backward pass, storing the gains.
RECURSIVE Sweep(_, _, _, _, _, _)
SweepOn(s, t, tmin, mu, b) ==
    Sweep([s EXCEPT !.Ks = SetAt(s.Ks, t, b.Kt), !.ks = SetAt(s.ks, t, b.kt)],
          t - 1, tmin, mu, b.Vt, b.Gt)

Sweep(s, t, tmin, mu, Vt1, Gt1) ==
    IF t < tmin THEN [s |-> s, V |-> Vt1, G |-> Gt1]
    ELSE SweepOn(s, t, tmin, mu, bellman_backup(s, t, mu, Vt1, Gt1))

\* The backward pass of the single-chain solver, from t = T-1 down to 0.
SweepFrom(s, T, mu, qT) == Sweep(s, T - 1, 0, mu, qT.Q, qT.g).s

backward_pass(s, T, mu) ==
    SweepFrom(s, T, mu, quadratize_final_cost(s.p, s.xhat[T + 1]))

\* ------------------------------------------------------------ hindsight

\* A branch as handed to the constructor: no trajectory, no gains yet.
Branch(p, probability) ==
    [p |-> p, probability |-> probability,
     Ks |-> <<>>, ks |-> <<>>, uhat |-> <<>>, xhat |-> <<>>]

RECURSIVE SumProbability(_, _)
SumProbability(branches, n) ==
    IF n = 0 THEN Zero
    ELSE RAdd(SumProbability(branches, n - 1), branches[n].probability)

total_branch_probability(branches) == SumProbability(branches, Len(branches))

\* IS_ALMOST_EQUAL(a, b, tol)
IsAlmostEqual(a, b, tol) == RLeq(RAbs(RSub(a, b)), tol)

ProbTol == Rat(1, 1000)
\* Mutant: the tolerance of the sum is 1 instead of 1e-3.
ProbabilityOk_LooseTolerance(branches) ==
    IsAlmostEqual(total_branch_probability(branches), One, One)

ProbabilityOk(branches) ==
    IsAlmostEqual(total_branch_probability(branches), One, ProbTol)

\* The sizes timesteps() of the hindsight solver insists on, read from
\* branch 0: it throws on any other.
h_SizesOk(h) ==
    /\ Len(h.branches) > 0
    /\ Len(h.branches[1].ks) = Len(h.branches[1].uhat)
    /\ Len(h.branches[1].Ks) = Len(h.branches[1].uhat)
    /\ Len(h.branches[1].xhat) = Len(h.branches[1].uhat) + 1

h_timesteps(h) == Len(h.branches[1].uhat)

h_compute_control_stepsize(branch, xt, t, alpha) ==
    LET Kt == branch.Ks[t + 1]
        kt == branch.ks[t + 1]
        zt == RSub(xt, branch.xhat[t + 1])
        vt == RAdd(RMul(Kt, zt), RMul(alpha, kt))
    IN  RAdd(vt, branch.uhat[t + 1])

RECURSIVE h_Rollout(_, _, _, _, _, _, _)
\* One pass of the loop of forward_pass with the control u of step t.
h_RolloutStep(branch, T, alpha, t, states, controls, cost_to_go, u) ==
    h_Rollout(branch, T, alpha, t + 1,
              Append(states, dynamics(branch.p, states[t + 1], u)),
              Append(controls, u),
              RAdd(cost_to_go, cost(branch.p, states[t + 1], u, t)))

h_Rollout(branch, T, alpha, t, states, controls, cost_to_go) ==
    IF t = T
    THEN [states |-> states, controls |-> controls,
          cost |-> RAdd(cost_to_go, final_cost(branch.p, states[t + 1]))]
    ELSE h_RolloutStep(branch, T, alpha, t, states, controls, cost_to_go,
                       h_compute_control_stepsize(branch, states[t + 1], t, alpha))

\* forward_pass of branch branch_num (1-based here) from x_init.
h_forward_pass(h, branch_num, x_init, alpha) ==
    h_Rollout(h.branches[branch_num], h_timesteps(h), alpha, 0, <<x_init>>, <<>>, Zero)

\* new_cost += probability * cost of the rollout r; the holders keep r.
AddRollout(sofar, probability, r) ==
    [cost |-> RAdd(sofar.cost, RMul(probability, r.cost)),
     states |-> r.states, controls |-> r.controls]

\* The body of the line-search loop: the probability-weighted cost of the
\* rollouts of branches 1..n; the holders keep the last branch's rollout.
RECURSIVE ExpectedCost(_, _, _, _)
ExpectedCost(h, n, x_init, alpha) ==
    IF n = 0 THEN [cost |-> Zero, states |-> <<>>, controls |-> <<>>]
    ELSE AddRollout(ExpectedCost(h, n - 1, x_init, alpha),
                    h.branches[n].probability,
                    h_forward_pass(h, n, x_init, alpha))

\* After the line search: every branch is rolled out at the accepted step
\* size and its rollout swapped in; the shared first stage is branch 0's.
RECURSIVE CommitBranches(_, _, _, _, _)
\* Branch n takes the rollout r; the holders take what the branch held.
SwapRollout(h, n, x_init, alpha, r) ==
    CommitBranches([h EXCEPT !.branches[n].xhat = r.states,
                             !.branches[n].uhat = r.controls],
                   n + 1, x_init, alpha,
                   [xhat_new |-> h.branches[n].xhat, uhat_new |-> h.branches[n].uhat])

CommitBranches(h, n, x_init, alpha, holders) ==
    IF n > Len(h.branches)
    THEN [h |-> [h EXCEPT !.xhat0 = h.branches[1].xhat[1],
                          !.uhat0 = h.branches[1].uhat[1]],
          holders |-> holders]
    ELSE SwapRollout(h, n, x_init, alpha, h_forward_pass(h, n, x_init, alpha))

\* The value function at t from the one at t + 1 under the gains Kt, kt.
h_ValueUpdate(A, B, q, Vt1, Gt1, Kt, kt) ==
    LET tmp == RAdd(A, RMul(B, Kt))
    IN  [Kt |-> Kt, kt |-> kt,
         Vt |-> RAdd(RAdd(q.Q, RMul(Num(2), RMul(q.P, Kt))),
                     RAdd(RMul(Kt, RMul(q.R, Kt)), RMul(tmp, RMul(Vt1, tmp)))),
         Gt |-> RAdd(RAdd(RAdd(RMul(kt, q.P), RMul(kt, RMul(q.R, Kt))),
                          RAdd(q.g_x, RMul(q.g_u, Kt))),
                     RAdd(RMul(kt, RMul(B, RMul(Vt1, tmp))), RMul(Gt1, tmp)))]

\* The gains of the backup stored into the branch at t.
h_StoreBackup(branch, t, b) ==
    [branch |-> [branch EXCEPT !.Ks = SetAt(branch.Ks, t, b.Kt),
                               !.ks = SetAt(branch.ks, t, b.kt)],
     Vt |-> b.Vt, Gt |-> b.Gt]

\* The gains of the backup from the LM-inflated control Hessian.
h_Gains(lin, q, VLM, Vt1, Gt1, inv_term) ==
    h_ValueUpdate(lin.A, lin.B, q, Vt1, Gt1,
                  RMul(inv_term, RAdd(q.P, RMul(lin.B, RMul(VLM, lin.A)))),
                  RMul(inv_term, RAdd(q.g_u, RMul(lin.B, Gt1))))

h_BackupAt(lin, q, VLM, Vt1, Gt1) ==
    h_Gains(lin, q, VLM, Vt1, Gt1,
            RMul(Num(-1), RDiv(One, RAdd(q.R, RMul(lin.B, RMul(VLM, lin.B))))))

\* bellman_backup of the hindsight solver: stores the gains of slot t in
\* the branch and returns the value function at t.
h_bellman_backup(branch, t, mu, Vt1, Gt1) ==
    h_StoreBackup(branch, t,
        h_BackupAt(linearize_dynamics(branch.p, branch.xhat[t + 1], branch.uhat[t + 1]),
                   quadratize_cost(branch.p, t, branch.xhat[t + 1], branch.uhat[t + 1]),
                   RAdd(Vt1, mu), Vt1, Gt1))

\* The per-branch sweep t, t-1, ..., 1.
RECURSIVE h_Sweep(_, _, _, _, _)
h_SweepOn(b, t, mu) == h_Sweep(b.branch, t - 1, mu, b.Vt, b.Gt)

\* Mutant: the sweep of a branch goes down to t = 0.
h_Sweep_ToZero(branch, t, mu, Vt1, Gt1) ==
    IF ~(t >= 0) THEN [branch |-> branch, V |-> Vt1, G |-> Gt1]
    ELSE h_SweepOn(h_bellman_backup(branch, t, mu, Vt1, Gt1), t, mu)

h_Sweep(branch, t, mu, Vt1, Gt1) ==
    IF ~(t > 0) THEN [branch |-> branch, V |-> Vt1, G |-> Gt1]
    ELSE h_SweepOn(h_bellman_backup(branch, t, mu, Vt1, Gt1), t, mu)

\* The sweep of one branch from its final cost.
h_SweepFrom(branch, T, mu, qT) == h_Sweep(branch, T - 1, mu, qT.Q, qT.g)

\* "Backup each branch separately": the value function of every branch at t = 1.
BranchBackups(h, T, mu) ==
    [n \in 1..Len(h.branches) |->
        h_SweepFrom(h.branches[n], T, mu,
                    quadratize_final_cost(h.branches[n].p,
                                          h.branches[n].xhat[Len(h.branches[n].xhat)]))]

\* Mutant: the terms of the branches are added without their weights.
AddWeighted_Unweighted(w, p, lin, q, VLM, Gt1) ==
    [inv_term |-> RAdd(w.inv_term, RMul(lin.B, RMul(VLM, lin.B))),
     Kt_term |-> RAdd(w.Kt_term, RMul(lin.B, RMul(VLM, lin.A))),
     kt_term |-> RAdd(w.kt_term, RMul(lin.B, Gt1)),
     wR |-> RAdd(w.wR, q.R),
     wP |-> RAdd(w.wP, q.P),
     wg_u |-> RAdd(w.wg_u, q.g_u)]

\* One branch's terms of the merge, weighted by its probability p and
\* added to the sums w.
AddWeighted(w, p, lin, q, VLM, Gt1) ==
    [inv_term |-> RAdd(w.inv_term, RMul(p, RMul(lin.B, RMul(VLM, lin.B)))),
     Kt_term |-> RAdd(w.Kt_term, RMul(p, RMul(lin.B, RMul(VLM, lin.A)))),
     kt_term |-> RAdd(w.kt_term, RMul(p, RMul(lin.B, Gt1))),
     wR |-> RAdd(w.wR, RMul(p, q.R)),
     wP |-> RAdd(w.wP, RMul(p, q.P)),
     wg_u |-> RAdd(w.wg_u, RMul(p, q.g_u))]

\* The probability-weighted sums of the merge over branches 1..n.
RECURSIVE WeightedTerms(_, _, _, _)
WeightedTerms(h, backups, n, mu) ==
    IF n = 0
    THEN [inv_term |-> Zero, Kt_term |-> Zero, kt_term |-> Zero,
          wR |-> Zero, wP |-> Zero, wg_u |-> Zero]
    ELSE AddWeighted(WeightedTerms(h, backups, n - 1, mu),
                     h.branches[n].probability,
                     linearize_dynamics(h.branches[n].p, h.xhat0, h.uhat0),
                     quadratize_cost(h.branches[n].p, 0, h.xhat0, h.uhat0),
                     RAdd(backups[n].V, mu),
                     backups[n].G)

\* math::is_equal on vectors: NaN is equal to nothing.
is_equal(a, b) == ~IsNaN(a) /\ ~IsNaN(b) /\ a = b

\* The IS_TRUE checks of the copy loop fail for this branch.
FirstStageMoved(h, branch) ==
    ~(is_equal(branch.xhat[1], h.xhat0) /\ is_equal(branch.uhat[1], h.uhat0))

\* The copy of K0, k0 into every branch; the loop stops at the first
\* branch whose IS_TRUE check throws, and ok is then FALSE.
CopyFirstGains(h, swept, K0, k0) ==
    [h |-> [h EXCEPT !.K0 = K0, !.k0 = k0,
                     !.branches = [n \in 1..Len(swept) |->
                         IF \A m \in 1..(n - 1) : ~FirstStageMoved(h, swept[m])
                         THEN [swept[n] EXCEPT !.Ks = SetAt(swept[n].Ks, 0, K0),
                                               !.ks = SetAt(swept[n].ks, 0, k0)]
                         ELSE swept[n]]],
     ok |-> \A n \in 1..Len(swept) : ~FirstStageMoved(h, swept[n])]

\* The shared gains from the weighted sums.
MergeGains(h, swept, w, inv_term) ==
    CopyFirstGains(h, swept, RMul(inv_term, RAdd(w.wP, w.Kt_term)),
                             RMul(inv_term, RAdd(w.wg_u, w.kt_term)))

MergeBranches(h, backups, w) ==
    MergeGains(h, [n \in 1..Len(backups) |-> backups[n].branch], w,
               RMul(Num(-1), RDiv(One, RAdd(w.wR, w.inv_term))))

MergeBackups(h, backups, mu) ==
    MergeBranches(h, backups, WeightedTerms(h, backups, Len(h.branches), mu))

\* The backward pass of the hindsight solver: per-branch sweeps, the merge
\* at t = 0 and the copy of K0, k0 into every branch.
h_backward_pass(h, T, mu) == MergeBackups(h, BranchBackups(h, T, mu), mu)

\* ------------------------------------------------------------ state

VARIABLES
    pc,     \* where the caller and the running solve() stand
    args,   \* the arguments of the current solve() call
    warms,  \* warm-start calls since the last cold start
    ch,     \* single-chain solver: [p, Ks, ks, uhat, xhat]
    chL,    \* locals of the single-chain solve() in progress
    chG,    \* what the single-chain solve() did: outcome, accepted costs, passes
    hs,     \* hindsight solver: [branches, K0, k0, xhat0, uhat0]
    hsL,    \* locals of the hindsight solve() in progress
    hsG,    \* what the hindsight call did
    tree,   \* LQRTree: [nodes, out, log], the nodes in the order they were added
    bk      \* the last one-step backup on matrices: its inputs and its result

vars == <<pc, args, warms, ch, chL, chG, hs, hsL, hsG, tree, bk>>

\* The caller and the two iLQR solvers.
solverVars == <<pc, args, warms, ch, chL, chG, hs, hsL, hsG>>

\* No one-step backup on matrices has run.
NoBackup == [op |-> "none"]

\* LQRTree(state_dim, control_dim): no root yet. out records how the last
\* bellman_tree_backup ended, "none" when the tree changed since; log
\* is the sequence of its passes, each the set of nodes it gave K and V.
NoTree == [nodes |-> <<>>, out |-> "none", log |-> <<>>]

chVars == <<ch, chL, chG>>
hsVars == <<hs, hsL, hsG>>

\* ------------------------------------------------------------ bounds and inputs

MaxT == 3
MaxIters == 3
MaxWarm == 1
MaxTries == 4

Horizons == 0..MaxT
IterCaps == 0..MaxIters
Offsets == 0..(MaxT - 2)
Mus == {Num(-1), Zero, One}
ConvgRatios == {Zero, Rat(1, 100), One}
StartAlphas == {Zero, One, Num(3)}
XInits == {One}
UNominals == {One}
Probabilities == {Rat(-1, 2), Half, Rat(3, 2)}

P1 == Problem(One, One, One, Zero, One, Zero, Zero)
P2 == Problem(One, Num(2), One, Zero, One, One, Zero)

\* The branch lists a caller may hand to the constructor.
BranchLists ==
    {<<>>,
     <<Branch(P1, One)>>,
     <<Branch(P1, Half)>>,
     <<Branch(P1, Half), Branch(P1, Half)>>,
     <<Branch(P1, Half), Branch(P2, Half)>>,
     <<Branch(P1, Rat(3, 2)), Branch(P2, Rat(-1, 2))>>,
     <<Branch(P1, One), Branch(P2, Half)>>}

\* An Eigen vector no one has written yet.  No step reads it: solve()
\* writes xhat0_, uhat0_, K0_ and k0_ on either start before their first
\* read, so the value standing for it decides nothing.
Uninit == NaN


\* ------------------------------------------------------------ solve(), single chain
\* Mutant: the horizon is not checked.
ChArgsOk_NoHorizonCheck(a) ==
    /\ RLeq(Zero, a.mu)
    /\ a.max_iters > 0
    /\ RLess(Zero, a.cost_convg_ratio)
    /\ RLess(Zero, a.start_alpha)

\* The argument checks at the top of iLQRSolver::solve.
ChArgsOk(a) ==
    /\ a.T > 0
    /\ RLeq(Zero, a.mu)
    /\ a.max_iters > 0
    /\ RLess(Zero, a.cost_convg_ratio)
    /\ RLess(Zero, a.start_alpha)

\* |(old_cost - new_cost) / new_cost|
CostDiffRatio(old_cost, new_cost) == RAbs(RDiv(RSub(old_cost, new_cost), new_cost))
\* Mutant: the line search takes its first rollout, whatever it costs.
KeepSearching_FirstRollout(l, a) == IsNaN(l.new_cost)

\* The condition of the line-search loop.
KeepSearching(l, a) ==
    ~(RLess(l.new_cost, l.old_cost) \/ RLess(l.ratio, a.cost_convg_ratio))
\* Mutant: the outer loop breaks after every line search.
Converged_Always(l, a) == TRUE

\* Mutant: the outer loop breaks as soon as the cost has decreased.
Converged_CostDecreased(l, a) == RLess(l.new_cost, l.old_cost)

\* Mutant: the outer loop never breaks.
Converged_Never(l, a) == FALSE

\* The test that ends the outer loop.
Converged(l, a) == RLess(l.ratio, a.cost_convg_ratio)

NoLocals ==
    [iter |-> 0, alpha |-> NaN, old_cost |-> NaN, new_cost |-> NaN, ratio |-> NaN,
     xhat_new |-> <<>>, uhat_new |-> <<>>, tries |-> 0]

\* The locals solve() declares before its loop.
StartLocals(a) ==
    [iter |-> 0, alpha |-> NaN, old_cost |-> Inf, new_cost |-> NaN, ratio |-> NaN,
     xhat_new |-> Fill(a.T + 1, Zero), uhat_new |-> Fill(a.T, Zero), tries |-> 0]

\* Top of the outer loop's body: the line search starts.
StartSearch(l, a) ==
    [l EXCEPT !.alpha = a.start_alpha, !.new_cost = NaN,
              !.ratio = CostDiffRatio(l.old_cost, NaN), !.tries = 0]

\* What is recorded of a call: how it ended (out), the costs and step
\* sizes it accepted, its forward and backward passes, the solver as it was
\* before the call (pre), and, for a warm start that drops nothing, whether
\* the call before it returned through the convergence test (last).
NoGhost ==
    [out |-> "none", acc |-> <<>>, alphas |-> <<>>, fwd |-> 0, bwd |-> 0,
     pre |-> <<>>, last |-> "none"]

\* solve() returned normally.
Returned(g) == g.out \in {"converged", "exhausted"}
\* Mutant: the cold start allocates T states instead of T + 1.
ChColdState_ShortStates(s, a) ==
    [s EXCEPT !.Ks = Fill(a.T, Zero), !.ks = Fill(a.T, Zero),
              !.uhat = Fill(a.T, a.u_nominal), !.xhat = Fill(a.T, Zero)]

ChColdState(s, a) ==
    [s EXCEPT !.Ks = Fill(a.T, Zero), !.ks = Fill(a.T, Zero),
              !.uhat = Fill(a.T, a.u_nominal), !.xhat = Fill(a.T + 1, Zero)]

ChErased(s, a) ==
    [s EXCEPT !.Ks = Erase(s.Ks, a.t_offset), !.ks = Erase(s.ks, a.t_offset),
              !.uhat = Erase(s.uhat, a.t_offset), !.xhat = Erase(s.xhat, a.t_offset)]

ChSizesMatch(s, T) ==
    /\ Len(s.Ks) = T
    /\ Len(s.ks) = T
    /\ Len(s.uhat) = T
    /\ Len(s.xhat) = T + 1

\* An argument check fails: solve() throws.
ChReject ==
    /\ pc = "ch_entry"
    /\ ~ChArgsOk(args)
    /\ chG' = [chG EXCEPT !.out = "error"]
    /\ pc' = "hs_entry"
    /\ UNCHANGED <<tree, bk, args, warms, ch, chL, hsVars>>

\* Cold start: all of the solver's state is initialized.
ChCold ==
    /\ pc = "ch_entry"
    /\ ChArgsOk(args)
    /\ ~args.warm_start
    /\ ch' = ChColdState(ch, args)
    /\ chL' = StartLocals(args)
    /\ chG' = [chG EXCEPT !.pre = <<>>]
    /\ pc' = "ch_loop"
    /\ UNCHANGED <<tree, bk, args, warms, hsVars>>

\* Warm start: the first t_offset entries are dropped and the sizes checked.
ChWarm ==
    /\ pc = "ch_entry"
    /\ ChArgsOk(args)
    /\ args.warm_start
    /\ Len(ch.Ks) > args.t_offset
    /\ ChSizesMatch(ChErased(ch, args), args.T)
    /\ ch' = ChErased(ch, args)
    /\ chL' = StartLocals(args)
    /\ pc' = "ch_loop"
    /\ UNCHANGED <<tree, bk, args, warms, chG, hsVars>>

\* Warm start with stored data that do not fit: solve() throws.
ChWarmFail ==
    /\ pc = "ch_entry"
    /\ ChArgsOk(args)
    /\ args.warm_start
    /\ \/ /\ ~(Len(ch.Ks) > args.t_offset)
          /\ ch' = ch
       \/ /\ Len(ch.Ks) > args.t_offset
          /\ ~ChSizesMatch(ChErased(ch, args), args.T)
          /\ ch' = ChErased(ch, args)
    /\ chG' = [chG EXCEPT !.out = "error"]
    /\ pc' = "hs_entry"
    /\ UNCHANGED <<tree, bk, args, warms, chL, hsVars>>

\* Top of the outer loop: one more iteration starts.
ChIterate ==
    /\ pc = "ch_loop"
    /\ chL.iter < args.max_iters
    /\ chL' = StartSearch(chL, args)
    /\ pc' = "ch_search"
    /\ UNCHANGED <<tree, bk, args, warms, ch, chG, hsVars>>

\* The outer loop ran max_iters times: solve() returns.
ChExhausted ==
    /\ pc = "ch_loop"
    /\ ~(chL.iter < args.max_iters)
    /\ chG' = [chG EXCEPT !.out = "exhausted"]
    /\ pc' = "hs_entry"
    /\ UNCHANGED <<tree, bk, args, warms, ch, chL, hsVars>>

\* Mutant: the step size is quartered after each pass.
Searched_QuarterStep(l, r) ==
    [l EXCEPT !.new_cost = r.cost,
              !.xhat_new = r.states,
              !.uhat_new = r.controls,
              !.ratio = CostDiffRatio(l.old_cost, r.cost),
              !.alpha = RMul(l.alpha, RMul(Half, Half)),
              !.tries = l.tries + 1]

\* The body of the line-search loop once the rollout r is there: the
\* cost, the ratio, and alpha halved.
Searched(l, r) ==
    [l EXCEPT !.new_cost = r.cost,
              !.xhat_new = r.states,
              !.uhat_new = r.controls,
              !.ratio = CostDiffRatio(l.old_cost, r.cost),
              !.alpha = RMul(l.alpha, Half),
              !.tries = l.tries + 1]

\* One pass of the line-search loop: roll out at alpha, then halve alpha;
\* forward_pass throws when the stored sizes disagree.
ChForward ==
    /\ pc = "ch_search"
    /\ KeepSearching(chL, args)
    /\ chL.tries < MaxTries
    /\ IF SizesOk(ch)
       THEN /\ chL' = Searched(chL, forward_pass(ch, ch.p, args.x_init, chL.alpha))
            /\ chG' = [chG EXCEPT !.fwd = chG.fwd + 1]
            /\ pc' = pc
       ELSE /\ chL' = chL
            /\ chG' = [chG EXCEPT !.out = "error"]
            /\ pc' = "hs_entry"
    /\ UNCHANGED <<tree, bk, args, warms, ch, hsVars>>

\* The line search is over: its rollout becomes the nominal trajectory.
ChSwap == [ch EXCEPT !.xhat = chL.xhat_new, !.uhat = chL.uhat_new]

ChAccepted ==
    [chG EXCEPT !.acc = Append(chG.acc, chL.new_cost),
                !.alphas = Append(chG.alphas, RMul(Num(2), chL.alpha))]

\* The accepted rollout is committed and the ratio is below the threshold:
\* solve() returns.
ChConverged ==
    /\ pc = "ch_search"
    /\ ~KeepSearching(chL, args)
    /\ Converged(chL, args)
    /\ ch' = ChSwap
    /\ chL' = [chL EXCEPT !.xhat_new = ch.xhat, !.uhat_new = ch.uhat]
    /\ chG' = [ChAccepted EXCEPT !.out = "converged"]
    /\ pc' = "hs_entry"
    /\ UNCHANGED <<tree, bk, args, warms, hsVars>>

\* The accepted rollout is committed and the ratio is not below the
\* threshold: the backward pass follows.
ChCommit ==
    /\ pc = "ch_search"
    /\ ~KeepSearching(chL, args)
    /\ ~Converged(chL, args)
    /\ ch' = ChSwap
    /\ chL' = [chL EXCEPT !.xhat_new = ch.xhat, !.uhat_new = ch.uhat,
                          !.old_cost = chL.new_cost]
    /\ chG' = ChAccepted
    /\ pc' = "ch_back"
    /\ UNCHANGED <<tree, bk, args, warms, hsVars>>

\* The backward pass, and the loop's ++iter.
ChBackward ==
    /\ pc = "ch_back"
    /\ ch' = backward_pass(ch, args.T, args.mu)
    /\ chL' = [chL EXCEPT !.iter = chL.iter + 1]
    /\ chG' = [chG EXCEPT !.bwd = chG.bwd + 1]
    /\ pc' = "ch_loop"
    /\ UNCHANGED <<tree, bk, args, warms, hsVars>>

\* ------------------------------------------------------------ hindsight solver

\* The constructor's checks.
ConstructorOk(branches) ==
    /\ Len(branches) > 0
    /\ ProbabilityOk(branches)

\* iLQRHindsightSolver(branches) succeeds.
Construct ==
    /\ pc = "new"
    /\ \E bl \in BranchLists :
          /\ ConstructorOk(bl)
          /\ hs' = [branches |-> bl, K0 |-> Zero, k0 |-> Zero,
                    xhat0 |-> Uninit, uhat0 |-> Uninit]
    /\ pc' = "idle"
    /\ UNCHANGED <<tree, bk, args, warms, chVars, hsL, hsG>>

\* iLQRHindsightSolver(branches) throws: there is no solver.
ConstructFail ==
    /\ pc = "new"
    /\ \E bl \in BranchLists :
          /\ ~ConstructorOk(bl)
          /\ hsG' = [hsG EXCEPT !.out = "error", !.pre = bl]
    /\ pc' = "dead"
    /\ UNCHANGED <<tree, bk, args, warms, chVars, hs, hsL>>

\* The checks of set_branch_probability.
SetProbabilityOk(h, branch_num, probability) ==
    /\ 0 <= branch_num /\ branch_num < Len(h.branches)
    /\ RLeq(Zero, probability) /\ RLeq(probability, One)

set_branch_probability(h, branch_num, probability) ==
    [h EXCEPT !.branches[branch_num + 1].probability = probability]

SetBranchProbability ==
    /\ pc = "idle"
    /\ \E n \in 0..Len(hs.branches), q \in Probabilities :
          IF SetProbabilityOk(hs, n, q)
          THEN /\ hs' = set_branch_probability(hs, n, q)
               /\ hsG' = [hsG EXCEPT !.out = "set"]
          ELSE /\ hs' = hs
               /\ hsG' = [hsG EXCEPT !.out = "set_error"]
    /\ pc' = "ret"
    /\ UNCHANGED <<tree, bk, args, warms, chVars, hsL>>

\* The argument checks at the top of iLQRHindsightSolver::solve.
HsArgsOk(a) ==
    /\ a.T > 1
    /\ RLeq(Zero, a.mu)
    /\ a.max_iters > 0
    /\ RLess(Zero, a.cost_convg_ratio)
    /\ RLess(Zero, a.start_alpha)
    /\ a.t_offset >= 0

\* All that solve() checks before it touches the solver.
HsPreconditions(h, a) == HsArgsOk(a) /\ ProbabilityOk(h.branches)

HsColdState(h, a) ==
    [h EXCEPT !.xhat0 = Zero, !.uhat0 = a.u_nominal, !.K0 = Zero, !.k0 = Zero,
              !.branches = [n \in 1..Len(h.branches) |->
                  [h.branches[n] EXCEPT !.Ks = Fill(a.T, Zero),
                                        !.ks = Fill(a.T, Zero),
                                        !.uhat = Fill(a.T, a.u_nominal),
                                        !.xhat = Fill(a.T + 1, Zero)]]]

\* The first loop of the warm start, from branch n on: drop t_offset
\* entries, check the sizes, add the branch to the averages K0, k0.
\* ok is FALSE when a check throws.
RECURSIVE WarmResize(_, _, _)
WarmResize(h, n, a) ==
    IF n > Len(h.branches) THEN [h |-> h, ok |-> TRUE]
    ELSE LET branch == h.branches[n]
         IN  IF ~(Len(branch.Ks) > a.t_offset) THEN [h |-> h, ok |-> FALSE]
             ELSE LET e == ChErased(branch, a)
                      h2 == [h EXCEPT !.branches[n] = e]
                  IN  IF ~ChSizesMatch(e, a.T) THEN [h |-> h2, ok |-> FALSE]
                      ELSE WarmResize(
                              [h2 EXCEPT
                                  !.K0 = RAdd(h2.K0, RMul(e.probability, e.Ks[1])),
                                  !.k0 = RAdd(h2.k0, RMul(e.probability, e.ks[1]))],
                              n + 1, a)
\* Mutant: the second loop of the warm start copies the gains only.
ShareFirst_GainsOnly(h) ==
    [h EXCEPT !.branches = [n \in 1..Len(h.branches) |->
        [h.branches[n] EXCEPT !.Ks = SetAt(h.branches[n].Ks, 0, h.K0),
                              !.ks = SetAt(h.branches[n].ks, 0, h.k0)]]]

\* The second loop of the warm start: the shared first stage is copied
\* into every branch.
ShareFirst(h) ==
    [h EXCEPT !.branches = [n \in 1..Len(h.branches) |->
        [h.branches[n] EXCEPT !.Ks = SetAt(h.branches[n].Ks, 0, h.K0),
                              !.ks = SetAt(h.branches[n].ks, 0, h.k0),
                              !.xhat = SetAt(h.branches[n].xhat, 0, h.xhat0),
                              !.uhat = SetAt(h.branches[n].uhat, 0, h.uhat0)]]]

\* The warm start of the hindsight solver.
HsWarmState(h, a) ==
    LET h0 == [h EXCEPT !.xhat0 = a.x_init, !.uhat0 = a.u_nominal,
                        !.K0 = Zero, !.k0 = Zero]
        r == WarmResize(h0, 1, a)
    IN  IF r.ok THEN [h |-> ShareFirst(r.h), ok |-> TRUE] ELSE r

\* A check at the top of solve() fails: solve() throws.
HsReject ==
    /\ pc = "hs_entry"
    /\ ~HsPreconditions(hs, args)
    /\ hsG' = [hsG EXCEPT !.out = "error"]
    /\ pc' = "ret"
    /\ UNCHANGED <<tree, bk, args, warms, chVars, hs, hsL>>

HsCold ==
    /\ pc = "hs_entry"
    /\ HsPreconditions(hs, args)
    /\ ~args.warm_start
    /\ hs' = HsColdState(hs, args)
    /\ hsL' = StartLocals(args)
    /\ hsG' = [hsG EXCEPT !.pre = <<>>]
    /\ pc' = "hs_loop"
    /\ UNCHANGED <<tree, bk, args, warms, chVars>>

HsWarm ==
    /\ pc = "hs_entry"
    /\ HsPreconditions(hs, args)
    /\ args.warm_start
    /\ HsWarmState(hs, args).ok
    /\ hs' = HsWarmState(hs, args).h
    /\ hsL' = StartLocals(args)
    /\ pc' = "hs_loop"
    /\ UNCHANGED <<tree, bk, args, warms, chVars, hsG>>

\* Warm start with stored data that do not fit: solve() throws.
HsWarmFail ==
    /\ pc = "hs_entry"
    /\ HsPreconditions(hs, args)
    /\ args.warm_start
    /\ ~HsWarmState(hs, args).ok
    /\ hs' = HsWarmState(hs, args).h
    /\ hsG' = [hsG EXCEPT !.out = "error"]
    /\ pc' = "ret"
    /\ UNCHANGED <<tree, bk, args, warms, chVars, hsL>>

HsIterate ==
    /\ pc = "hs_loop"
    /\ hsL.iter < args.max_iters
    /\ hsL' = StartSearch(hsL, args)
    /\ pc' = "hs_search"
    /\ UNCHANGED <<tree, bk, args, warms, chVars, hs, hsG>>

HsExhausted ==
    /\ pc = "hs_loop"
    /\ ~(hsL.iter < args.max_iters)
    /\ hsG' = [hsG EXCEPT !.out = "exhausted"]
    /\ pc' = "ret"
    /\ UNCHANGED <<tree, bk, args, warms, chVars, hs, hsL>>

\* One pass of the line-search loop: every branch is rolled out at alpha;
\* forward_pass throws when the sizes stored in branch 0 disagree.
HsForward ==
    /\ pc = "hs_search"
    /\ KeepSearching(hsL, args)
    /\ hsL.tries < MaxTries
    /\ IF h_SizesOk(hs)
       THEN /\ hsL' = Searched(hsL, ExpectedCost(hs, Len(hs.branches),
                                                 args.x_init, hsL.alpha))
            /\ hsG' = [hsG EXCEPT !.fwd = hsG.fwd + 1]
            /\ pc' = pc
       ELSE /\ hsL' = hsL
            /\ hsG' = [hsG EXCEPT !.out = "error"]
            /\ pc' = "ret"
    /\ UNCHANGED <<tree, bk, args, warms, chVars, hs>>
\* Mutant: the halving at the end of the line search is not undone.
AcceptedAlpha_NotRestored(l) == l.alpha

\* The step size that worked: the halving at the end of the loop undone.
AcceptedAlpha(l) == RMul(RDiv(One, Half), l.alpha)

\* The branches rolled out once more at the accepted step size and swapped in.
HsCommitted ==
    CommitBranches(hs, 1, args.x_init, AcceptedAlpha(hsL),
                   [xhat_new |-> hsL.xhat_new, uhat_new |-> hsL.uhat_new])

HsAccepted ==
    [hsG EXCEPT !.acc = Append(hsG.acc, hsL.new_cost),
                !.alphas = Append(hsG.alphas, AcceptedAlpha(hsL))]

HsCommittedLocals ==
    [hsL EXCEPT !.alpha = AcceptedAlpha(hsL),
                !.xhat_new = HsCommitted.holders.xhat_new,
                !.uhat_new = HsCommitted.holders.uhat_new,
                !.old_cost = hsL.new_cost]

HsConverged ==
    /\ pc = "hs_search"
    /\ ~KeepSearching(hsL, args)
    /\ Converged(hsL, args)
    /\ hs' = HsCommitted.h
    /\ hsL' = HsCommittedLocals
    /\ hsG' = [HsAccepted EXCEPT !.out = "converged"]
    /\ pc' = "ret"
    /\ UNCHANGED <<tree, bk, args, warms, chVars>>

HsCommit ==
    /\ pc = "hs_search"
    /\ ~KeepSearching(hsL, args)
    /\ ~Converged(hsL, args)
    /\ hs' = HsCommitted.h
    /\ hsL' = HsCommittedLocals
    /\ hsG' = HsAccepted
    /\ pc' = "hs_back"
    /\ UNCHANGED <<tree, bk, args, warms, chVars>>

\* The backward pass with the merge at t = 0, and the loop's ++iter; the
\* IS_TRUE checks of the copy loop may throw.
HsBackward ==
    /\ pc = "hs_back"
    /\ LET r == h_backward_pass(hs, args.T, args.mu)
       IN  /\ hs' = r.h
           /\ hsL' = [hsL EXCEPT !.iter = IF r.ok THEN hsL.iter + 1 ELSE hsL.iter]
           /\ hsG' = [hsG EXCEPT !.bwd = hsG.bwd + 1,
                                 !.out = IF r.ok THEN hsG.out ELSE "error"]
           /\ pc' = IF r.ok THEN "hs_loop" ELSE "ret"
    /\ UNCHANGED <<tree, bk, args, warms, chVars>>

\* ------------------------------------------------------------ caller

\* The caller asks each solver it holds to solve with the same arguments.
Call ==
    /\ pc = "idle"
    /\ \E T \in Horizons, x \in XInits, w \in BOOLEAN, o \in Offsets :
          /\ w => warms < MaxWarm
          /\ ~w => o = 0
          /\ args' = [args EXCEPT !.T = T, !.x_init = x, !.warm_start = w,
                                  !.t_offset = o]
          /\ warms' = IF w THEN warms + 1 ELSE warms
    /\ chG' = [chG EXCEPT !.pre = ch,
                           !.last = IF args'.warm_start /\ args'.t_offset = 0
                                    THEN chG.last ELSE "none"]
    /\ hsG' = [hsG EXCEPT !.pre = hs,
                           !.last = IF args'.warm_start /\ args'.t_offset = 0
                                    THEN hsG.last ELSE "none"]
    /\ pc' = "ch_entry"
    /\ UNCHANGED <<tree, bk, ch, chL, hs, hsL>>

\* The call is over, by return or by exception; the caller goes on.
Return ==
    /\ pc = "ret"
    /\ pc' = "idle"
    /\ args' = [args EXCEPT !.T = 0, !.x_init = Zero, !.warm_start = FALSE,
                            !.t_offset = 0]
    /\ warms' = IF /\ ~args.warm_start
                   /\ Returned(chG)
                   /\ Returned(hsG)
                THEN 0 ELSE warms
    /\ chL' = NoLocals
    /\ hsL' = NoLocals
    /\ chG' = [NoGhost EXCEPT !.last = IF chG.out = "converged"
                                        THEN "converged" ELSE "none"]
    /\ hsG' = [NoGhost EXCEPT !.last = IF hsG.out = "converged"
                                        THEN "converged" ELSE "none"]
    /\ UNCHANGED <<tree, bk, ch, hs>>

Init ==
    /\ pc = "new"
    /\ \E u \in UNominals, mu \in Mus, n \in IterCaps, c \in ConvgRatios,
          al \in StartAlphas :
          args = [T |-> 0, x_init |-> Zero, u_nominal |-> u, mu |-> mu,
                  max_iters |-> n, cost_convg_ratio |-> c, start_alpha |-> al,
                  warm_start |-> FALSE, t_offset |-> 0]
    /\ warms = 0
    /\ ch = [p |-> P1, Ks |-> <<>>, ks |-> <<>>, uhat |-> <<>>, xhat |-> <<>>]
    /\ chL = NoLocals
    /\ chG = NoGhost
    /\ hs = [branches |-> <<>>, K0 |-> Uninit, k0 |-> Uninit,
             xhat0 |-> Uninit, uhat0 |-> Uninit]
    /\ hsL = NoLocals
    /\ hsG = NoGhost
    /\ tree = NoTree
    /\ bk = NoBackup

Next ==
    \/ Construct
    \/ ConstructFail
    \/ SetBranchProbability
    \/ Call
    \/ Return
    \/ ChReject
    \/ ChCold
    \/ ChWarm
    \/ ChWarmFail
    \/ ChIterate
    \/ ChExhausted
    \/ ChForward
    \/ ChConverged
    \/ ChCommit
    \/ ChBackward
    \/ HsReject
    \/ HsCold
    \/ HsWarm
    \/ HsWarmFail
    \/ HsIterate
    \/ HsExhausted
    \/ HsForward
    \/ HsConverged
    \/ HsCommit
    \/ HsBackward

Spec == Init /\ [][Next]_vars

\* ------------------------------------------------------------ properties

\* Where the single-chain solve() is inside its loop.
ChRunning == pc \in {"ch_loop", "ch_search", "ch_back"}

\* Where the hindsight solve() is inside its loop.
HsRunning == pc \in {"hs_loop", "hs_search", "hs_back"}

\* The single-chain solve() of the current call is over.
ChOver == pc \in {"hs_entry", "hs_loop", "hs_search", "hs_back", "ret"} /\ chG.out # "none"

\* The hindsight solve() of the current call is over.
HsOver == pc = "ret" /\ hsG.out \in {"converged", "exhausted", "error"}

\* The loop ran max_iters times, or the last ratio is below the threshold.
ExhaustedOrConverged(l, a) ==
    l.iter = a.max_iters \/ RLess(l.ratio, a.cost_convg_ratio)

\* C1: on every normal return from solve(), of the single-chain solver and
\* of the hindsight solver, either the outer loop executed max_iters
\* iterations or the ratio |old_cost - new_cost| / |new_cost| of the last
\* line search is below cost_convg_ratio.
C1_ReturnMeansExhaustedOrConverged ==
    /\ Returned(chG) => ExhaustedOrConverged(chL, args)
    /\ Returned(hsG) => ExhaustedOrConverged(hsL, args)

\* Both solvers have returned, the single chain after max_iters iterations
\* and the hindsight solver through the convergence test.
C1_Witness ==
    /\ pc = "ret"
    /\ Returned(chG) /\ chL.iter = args.max_iters
    /\ Returned(hsG) /\ hsL.iter < args.max_iters
    /\ RLess(hsL.ratio, args.cost_convg_ratio)

\* The slack of the cost comparisons: far above the 1e-12 of the claim.
CostSlack == Rat(1, 1000)

\* The accepted costs never increase from one iteration to the next.
NeverIncreases(acc) ==
    \A i \in 2..Len(acc) : RLeq(acc[i], RAdd(acc[i - 1], CostSlack))

\* C2 as stated: within one solve() call the accepted cost never increases
\* from one outer iteration to the next, the iteration that triggers the
\* convergence break included.
C2_AcceptedCostNeverIncreases ==
    /\ NeverIncreases(chG.acc)
    /\ NeverIncreases(hsG.acc)

\* The accepted cost decreases strictly in every iteration but the one
\* that breaks, and that one changes it by a ratio below cost_convg_ratio.
DecreasesUntilBreak(g, a) ==
    \A i \in 2..Len(g.acc) :
        \/ RLess(g.acc[i], g.acc[i - 1])
        \/ /\ i = Len(g.acc)
           /\ g.out = "converged"
           /\ RLess(CostDiffRatio(g.acc[i - 1], g.acc[i]), a.cost_convg_ratio)

\* C2 amended: the accepted cost decreases strictly from one outer
\* iteration to the next in every iteration that does not trigger the
\* convergence break; the cost accepted by the breaking iteration may
\* exceed the previous one, and then differs from it by a ratio below
\* cost_convg_ratio.
C2_AcceptedCostDecreasesUntilBreak ==
    /\ DecreasesUntilBreak(chG, args)
    /\ DecreasesUntilBreak(hsG, args)

\* A solve() has returned through the convergence test with a last
\* accepted cost above the one before it.
C2_Witness ==
    /\ chG.out = "converged"
    /\ Len(chG.acc) >= 2
    /\ RLess(chG.acc[Len(chG.acc) - 1], chG.acc[Len(chG.acc)])

\* A warm start that drops nothing, right after a solve() that returned
\* through the convergence test, has returned normally.
WarmAfterConverged(g) ==
    /\ Returned(g)
    /\ args.warm_start /\ args.t_offset = 0
    /\ g.last = "converged"

\* C3 as stated: after a solve() that returned through the convergence
\* test, a second solve() with warm_start = true, t_offset = 0 and
\* otherwise identical arguments executes exactly one outer iteration (one
\* line search ending in the convergence break, no backward pass) and
\* leaves the nominal trajectory unchanged.
C3_WarmRestartIsOneIteration ==
    WarmAfterConverged(chG) =>
        /\ Len(chG.acc) = 1
        /\ chG.bwd = 0
        /\ ch.xhat = chG.pre.xhat
        /\ ch.uhat = chG.pre.uhat

\* The first iteration never breaks: a backward pass ran, and only
\* max_iters = 1 keeps the call to one outer iteration.
RestartIterates(g, a) ==
    /\ g.bwd >= 1
    /\ Len(g.acc) >= 2 \/ a.max_iters = 1

\* C3 amended: after a solve() that returned through the convergence test,
\* a second solve() with warm_start = true, t_offset = 0 and otherwise
\* identical arguments never stops at its first line search: old_cost
\* starts at +infinity, so the first outer iteration ends in a backward
\* pass, and the call executes at least two outer iterations unless
\* max_iters = 1.
C3_WarmRestartRunsBackwardPass ==
    /\ WarmAfterConverged(chG) => RestartIterates(chG, args)
    /\ WarmAfterConverged(hsG) => RestartIterates(hsG, args)

\* Such a warm start of the single chain has returned through the
\* convergence test, in its second iteration or later.
C3_Witness ==
    /\ WarmAfterConverged(chG)
    /\ chG.out = "converged"
    /\ Len(chG.acc) >= 2

\* C4 as stated: a solve() call that fails leaves the stored trajectory
\* and gains as they were before the call; a warm start whose
\* t_offset/size validation fails leaves (K, k, uhat, xhat) of the solver,
\* of every hindsight branch, and the shared K0, k0, xhat0, uhat0
\* unmodified.  Stated for solvers that hold a solution.
C4_FailedSolveKeepsState ==
    /\ (ChOver /\ chG.out = "error" /\ Len(chG.pre.Ks) > 0) => ch = chG.pre
    /\ (HsOver /\ hsG.out = "error" /\ Len(hsG.pre.branches[1].Ks) > 0) => hs = hsG.pre

\* The arguments the single-chain solve() has to reject.
BadChainArgs(a) ==
    \/ a.T <= 0
    \/ RLess(a.mu, Zero)
    \/ a.max_iters <= 0
    \/ RLeq(a.cost_convg_ratio, Zero)
    \/ RLeq(a.start_alpha, Zero)

\* The arguments the hindsight solve() has to reject.
BadHindArgs(a) ==
    \/ a.T <= 1
    \/ RLess(a.mu, Zero)
    \/ a.max_iters <= 0
    \/ RLeq(a.cost_convg_ratio, Zero)
    \/ RLeq(a.start_alpha, Zero)

\* The call threw before any pass and left the solver as it was.
RejectedUntouched(g, solver) ==
    /\ g.out = "error"
    /\ g.fwd = 0
    /\ g.bwd = 0
    /\ solver = g.pre

\* C5: solve() rejects T <= 0 (single chain), T <= 1 (hindsight), mu < 0,
\* max_iters <= 0, cost_convg_ratio <= 0 and start_alpha <= 0 with an
\* error raised before any forward or backward pass runs and before any
\* solver state is written.
C5_BadArgumentsRejectedFirst ==
    /\ ChRunning => ~BadChainArgs(args)
    /\ HsRunning => ~BadHindArgs(args)
    /\ (ChOver /\ BadChainArgs(args)) => RejectedUntouched(chG, ch)
    /\ (HsOver /\ BadHindArgs(args)) => RejectedUntouched(hsG, hs)

\* Both solvers hold a solution and have rejected a call with T = 0.
C5_Witness ==
    /\ pc = "ret"
    /\ args.T = 0
    /\ chG.out = "error" /\ Len(ch.Ks) > 0
    /\ hsG.out = "error" /\ Len(hs.branches[1].Ks) > 0

\* The first stage of every branch is the shared one.
FirstStageShared(h) ==
    \A n \in 1..Len(h.branches) :
        /\ h.branches[n].Ks[1] = h.K0
        /\ h.branches[n].ks[1] = h.k0
        /\ h.branches[n].xhat[1] = h.xhat0
        /\ h.branches[n].uhat[1] = h.uhat0

\* C6: in the hindsight solver, after the initialization of solve() (cold
\* or warm) and after every outer iteration (after the commit of the
\* accepted rollout and after the backward pass), every branch has
\* Ks[0] = K0, ks[0] = k0, xhat[0] = xhat0 and uhat[0] = uhat0.
C6_FirstStageShared ==
    (HsRunning \/ (pc = "ret" /\ Returned(hsG))) => FirstStageShared(hs)

\* A warm-started solve() over two different branches has finished an
\* outer iteration.
C6_Witness ==
    /\ pc = "hs_loop"
    /\ hsL.iter >= 1
    /\ args.warm_start
    /\ Len(hs.branches) = 2
    /\ hs.branches[1].p # hs.branches[2].p

\* |xhat| = T + 1 and |uhat| = |K| = |k| = T.
SizesAre(s, T) ==
    /\ Len(s.xhat) = T + 1
    /\ Len(s.uhat) = T
    /\ Len(s.Ks) = T
    /\ Len(s.ks) = T

\* C7: after any normal return from solve(T, ...), cold or warm with any
\* accepted t_offset, |xhat| = T + 1 and |uhat| = |K| = |k| = T, for every
\* branch of the hindsight solver too, and the same sizes hold at the
\* start of every outer iteration.
C7_SizesMatchHorizon ==
    /\ (pc = "ch_loop" \/ Returned(chG)) => SizesAre(ch, args.T)
    /\ (pc = "hs_loop" \/ Returned(hsG)) =>
           \A n \in 1..Len(hs.branches) : SizesAre(hs.branches[n], args.T)

\* Both solvers have returned from a warm start that dropped one step.
C7_Witness ==
    /\ pc = "ret"
    /\ Returned(chG) /\ Returned(hsG)
    /\ args.warm_start /\ args.t_offset = 1

\* Every branch carries the problem of the single chain, and the
\* probabilities are 1, or 0.5 and 0.5.
IdenticalBranches(h) ==
    /\ \A n \in 1..Len(h.branches) : h.branches[n].p = ch.p
    /\ \/ Len(h.branches) = 1 /\ h.branches[1].probability = One
       \/ /\ Len(h.branches) = 2
          /\ h.branches[1].probability = Half
          /\ h.branches[2].probability = Half

\* Same accepted step sizes, costs and iterations, same trajectory and
\* gains in every branch as in the single chain.
SameAsChain ==
    /\ hsG.alphas = chG.alphas
    /\ hsG.acc = chG.acc
    /\ \A n \in 1..Len(hs.branches) :
          /\ hs.branches[n].xhat = ch.xhat
          /\ hs.branches[n].uhat = ch.uhat
          /\ hs.branches[n].Ks = ch.Ks
          /\ hs.branches[n].ks = ch.ks

\* Both solvers have returned from solve() with the same arguments.
BothReturned == pc = "ret" /\ Returned(chG) /\ Returned(hsG)

C9_OutOfRangeProbabilityRejected ==
    HsRunning =>
        \A n \in 1..Len(hs.branches) :
            /\ RLeq(Zero, hs.branches[n].probability)
            /\ RLeq(hs.branches[n].probability, One)

\* The probabilities sum to 1 within 1e-3.
SumsToOne(branches) ==
    /\ RLeq(Rat(999, 1000), SumProbability(branches, Len(branches)))
    /\ RLeq(SumProbability(branches, Len(branches)), Rat(1001, 1000))

\* No solve() runs or returns, and nothing is reset, unless the
\* probabilities sum to 1.
SolveNeedsSumOne ==
    /\ (HsRunning \/ Returned(hsG)) => SumsToOne(hs.branches)
    /\ (HsOver /\ ~SumsToOne(hs.branches)) => RejectedUntouched(hsG, hs)

\* The constructor succeeds only on a list that sums to 1.
ConstructorNeedsSumOne ==
    (pc = "new" /\ pc' = "idle") => SumsToOne(hs'.branches)

\* C10: branch probabilities that do not sum to 1 within 1e-3 are
\* rejected: the constructor fails on such a list, and after any sequence
\* of set_branch_probability calls a solve() performs no forward pass, no
\* backward pass and no state reset unless the probabilities sum to 1
\* within 1e-3.
C10_SumOfProbabilitiesEnforced ==
    /\ []SolveNeedsSumOne
    /\ [][ConstructorNeedsSumOne]_vars

\* A solver that holds a solution, and whose probabilities were then set
\* to a sum other than 1, has rejected a warm start with valid arguments.
C10_Witness ==
    /\ HsOver
    /\ hsG.out = "error"
    /\ ~BadHindArgs(args)
    /\ args.warm_start
    /\ ~SumsToOne(hs.branches)
    /\ Len(hs.branches[1].Ks) > 0

\* ------------------------------------------------------------ degenerate problems

\* A problem with no control cost and no terminal cost: the control
\* Hessian of its last stage is mu.
PSingular == Problem(One, One, One, Zero, Zero, Zero, Zero)

\* The single chain on a problem whose control Hessian is singular
\* without damping (PSingular), or whose optimal cost is zero (P2 from
\* x_init = xT).
DegenerateProblems == {PSingular, P2}

InitDegenerate ==
    /\ pc = "new"
    /\ \E u \in UNominals, mu \in {Zero, One}, c \in {Rat(1, 100), One} :
          args = [T |-> 0, x_init |-> Zero, u_nominal |-> u, mu |-> mu,
                  max_iters |-> MaxIters, cost_convg_ratio |-> c,
                  start_alpha |-> One, warm_start |-> FALSE, t_offset |-> 0]
    /\ warms = 0
    /\ \E p \in DegenerateProblems :
          ch = [p |-> p, Ks |-> <<>>, ks |-> <<>>, uhat |-> <<>>, xhat |-> <<>>]
    /\ chL = NoLocals
    /\ chG = NoGhost
    /\ hs = [branches |-> <<>>, K0 |-> Uninit, k0 |-> Uninit,
             xhat0 |-> Uninit, uhat0 |-> Uninit]
    /\ hsL = NoLocals
    /\ hsG = NoGhost
    /\ tree = NoTree
    /\ bk = NoBackup

SpecDegenerate == InitDegenerate /\ [][Next]_vars

\* ------------------------------------------------------------ LQR tree

\* Double precision equality checking epsilon.
EPS == Rat(1, 100000)

\* make_plan_node: a plan node with fixed A, B, Q, R and probability; K
\* and V are set by the backup.
make_plan_node(A, B, Q, R, probability) ==
    [A |-> A, B |-> B, Q |-> Q, R |-> R, probability |-> probability,
     K |-> Zero, V |-> Zero]

\* A node of the tree: its plan node, its parent (0 for the root) and its
\* depth.
TreeNode(item, parent, depth) == [item |-> item, parent |-> parent, depth |-> depth]

\* add_root: the tree is replaced by one with this root alone.
add_root(plan_node) ==
    [nodes |-> <<TreeNode(plan_node, 0, 0)>>, out |-> "added", log |-> <<>>]

\* std::accumulate over the probabilities of the plan nodes 1..n.
RECURSIVE accumulate(_, _)
accumulate(plan_nodes, n) ==
    IF n = 0 THEN Zero
    ELSE RAdd(accumulate(plan_nodes, n - 1), plan_nodes[n].probability)

\* The IS_ALMOST_EQUAL check of add_nodes passes.
ProbabilitySumOk(plan_nodes) ==
    IsAlmostEqual(accumulate(plan_nodes, Len(plan_nodes)), One, EPS)

\* add_nodes past its check: every plan node becomes a child of parent.
add_nodes(t, plan_nodes, parent) ==
    [nodes |-> t.nodes \o [i \in 1..Len(plan_nodes) |->
                              TreeNode(plan_nodes[i], parent,
                                       t.nodes[parent].depth + 1)],
     out |-> "added", log |-> <<>>]

\* The nodes without children, and the children of a node.
IsLeaf(nodes, i) == \A j \in 1..Len(nodes) : nodes[j].parent # i

leaf_nodes(nodes) == {i \in 1..Len(nodes) : IsLeaf(nodes, i)}

\* -(R + B^T Vt1 B)^-1 (B^T Vt1 A)
compute_control_policy(node, Vt1) ==
    [node EXCEPT !.K =
        RMul(RMul(RDiv(One, RAdd(node.R, RMul(node.B, RMul(Vt1, node.B)))),
                  RMul(node.B, RMul(Vt1, node.A))),
             Num(-1))]

\* Q + K^T R K + tmp^T Vt1 tmp for tmp = A + B K
ValueMatrix(node, Vt1, tmp) ==
    RAdd(RAdd(node.Q, RMul(node.K, RMul(node.R, node.K))),
         RMul(tmp, RMul(Vt1, tmp)))

compute_value_matrix(node, Vt1) ==
    ValueMatrix(node, Vt1, RAdd(node.A, RMul(node.B, node.K)))

\* The policy and then the value matrix of one node from Vt1.
StoreValue(node, Vt1) == [node EXCEPT !.V = compute_value_matrix(node, Vt1)]

BackupNode(tnode, Vt1) ==
    [tnode EXCEPT !.item = StoreValue(compute_control_policy(tnode.item, Vt1), Vt1)]

\* The first leaf, in the order the nodes were added, whose depth is not
\* that of the front leaf; 0 when all leaves are at one depth.
FirstDepth(nodes, leaves) ==
    nodes[CHOOSE i \in leaves : \A j \in leaves : i <= j].depth

Uneven(nodes, leaves, d) == {i \in leaves : nodes[i].depth # d}

FirstUneven(bad) ==
    IF bad = {} THEN 0 ELSE CHOOSE i \in bad : \A j \in bad : i <= j

\* control_and_value_for_leaves: the leaves ahead of the first one at
\* another depth get K and V from a zero value matrix; IS_EQUAL throws at
\* that leaf.
LeavesBackedUpTo(nodes, leaves, bad) ==
    [nodes |-> [i \in 1..Len(nodes) |->
                   IF i \in leaves /\ (bad = 0 \/ i < bad)
                   THEN BackupNode(nodes[i], Zero) ELSE nodes[i]],
     ok |-> bad = 0,
     log |-> <<{i \in leaves : bad = 0 \/ i < bad}>>]

control_and_value_for_leaves(nodes) ==
    LeavesBackedUpTo(nodes, leaf_nodes(nodes),
        FirstUneven(Uneven(nodes, leaf_nodes(nodes),
                           FirstDepth(nodes, leaf_nodes(nodes)))))

\* Mutant: the values of the children are added without their weights.
RECURSIVE Vtilde_Unweighted(_, _, _, _)
Vtilde_Unweighted(nodes, all_children, parent, n) ==
    IF n = 0 THEN Zero
    ELSE IF n \in all_children /\ nodes[n].parent = parent
         THEN RAdd(Vtilde_Unweighted(nodes, all_children, parent, n - 1),
                   nodes[n].item.V)
         ELSE Vtilde_Unweighted(nodes, all_children, parent, n - 1)

\* Vtilde += probability * V over the children in all_children that hang
\* under parent, among the nodes 1..n.
RECURSIVE Vtilde(_, _, _, _)
Vtilde(nodes, all_children, parent, n) ==
    IF n = 0 THEN Zero
    ELSE IF n \in all_children /\ nodes[n].parent = parent
         THEN RAdd(Vtilde(nodes, all_children, parent, n - 1),
                   RMul(nodes[n].item.probability, nodes[n].item.V))
         ELSE Vtilde(nodes, all_children, parent, n - 1)

\* The keys of parent_map.
ParentsOf(nodes, all_children) == {nodes[c].parent : c \in all_children}

\* backup_to_parents past its depth check: every parent of a node of
\* all_children gets K and V from the weighted values of its children in
\* all_children.
backup_to_parents(nodes, all_children) ==
    [i \in 1..Len(nodes) |->
        IF i \in ParentsOf(nodes, all_children)
        THEN BackupNode(nodes[i], Vtilde(nodes, all_children, i, Len(nodes)))
        ELSE nodes[i]]

\* The IS_EQUAL check of backup_to_parents: all_children are at one depth.
EvenDepth(nodes, all_children) ==
    \A c \in all_children : nodes[c].depth = FirstDepth(nodes, all_children)

\* Mutant: the loop stops as soon as one node is left, at any depth.
AtRoot_AnySingleNode(nodes, all_children) == Cardinality(all_children) = 1

\* The loop of bellman_tree_backup is over: the root alone is left.
AtRoot(nodes, all_children) ==
    Cardinality(all_children) = 1 /\ \A c \in all_children : nodes[c].depth = 0

\* The loop of bellman_tree_backup: up the tree until the root alone is
\* left, or backup_to_parents throws. Each round's nodes are a value
\* before the next round reads them.
RECURSIVE BackupLoop(_, _, _)
BackupLoop(nodes, all_children, log) ==
    IF AtRoot(nodes, all_children)
    THEN [nodes |-> nodes, ok |-> TRUE, log |-> log]
    ELSE IF ~EvenDepth(nodes, all_children)
    THEN [nodes |-> nodes, ok |-> FALSE, log |-> log]
    ELSE CHOOSE done \in
             {BackupLoop(parents, ParentsOf(nodes, all_children),
                         Append(log, ParentsOf(nodes, all_children))) :
                 parents \in {backup_to_parents(nodes, all_children)}} : TRUE

\* bellman_tree_backup: the leaves, then the loop; ok is FALSE when a
\* depth check threw.
bellman_tree_backup(nodes) ==
    CHOOSE done \in {IF leaves.ok
                     THEN BackupLoop(leaves.nodes, leaf_nodes(nodes), leaves.log)
                     ELSE leaves :
                        leaves \in {control_and_value_for_leaves(nodes)}} : TRUE

\* ------------------------------------------------------------ LQR tree: caller

\* Nodes a tree may hold.
MaxNodes == 5

\* The dynamics and costs of plan nodes: Q >= 0 and R > 0.
PlanProblems ==
    {[A |-> One, B |-> One, Q |-> One, R |-> One],
     [A |-> One, B |-> Num(2), Q |-> Zero, R |-> Num(2)]}

\* The probabilities of the plan nodes of one add_nodes call.
PlanProbabilities ==
    {<<One>>, <<Rat(2, 5), Rat(3, 5)>>, <<Half, Half>>, <<Half, Rat(1, 4)>>}

PlanNodes(probabilities) ==
    {[i \in 1..Len(probabilities) |->
         make_plan_node(f[i].A, f[i].B, f[i].Q, f[i].R, probabilities[i])] :
       f \in [1..Len(probabilities) -> PlanProblems]}

PlanNodeLists == UNION {PlanNodes(probabilities) : probabilities \in PlanProbabilities}

AddRoot ==
    /\ \E prm \in PlanProblems :
          tree' = add_root(make_plan_node(prm.A, prm.B, prm.Q, prm.R, One))
    /\ UNCHANGED <<solverVars, bk>>

AddNodes ==
    /\ \E plan_nodes \in PlanNodeLists, parent \in 1..Len(tree.nodes) :
          /\ Len(tree.nodes) + Len(plan_nodes) <= MaxNodes
          /\ ProbabilitySumOk(plan_nodes)
          /\ tree' = add_nodes(tree, plan_nodes, parent)
    /\ UNCHANGED <<solverVars, bk>>

\* The check of add_nodes throws: no node is added.
AddNodesFail ==
    /\ \E plan_nodes \in PlanNodeLists :
          /\ tree.nodes # <<>>
          /\ ~ProbabilitySumOk(plan_nodes)
          /\ tree' = [tree EXCEPT !.out = "rejected"]
    /\ UNCHANGED <<solverVars, bk>>

BellmanTreeBackup ==
    /\ tree.nodes # <<>>
    /\ \E done \in {bellman_tree_backup(tree.nodes)} :
          /\ done.ok
          /\ tree' = [nodes |-> done.nodes, out |-> "backed", log |-> done.log]
    /\ UNCHANGED <<solverVars, bk>>

\* The leaves are not at one depth: IS_EQUAL throws.
BellmanTreeBackupFail ==
    /\ tree.nodes # <<>>
    /\ \E done \in {bellman_tree_backup(tree.nodes)} :
          /\ ~done.ok
          /\ tree' = [nodes |-> done.nodes, out |-> "threw", log |-> done.log]
    /\ UNCHANGED <<solverVars, bk>>

InitTree ==
    /\ pc = "new"
    /\ args = [T |-> 0, x_init |-> Zero, u_nominal |-> One, mu |-> Zero,
               max_iters |-> 1, cost_convg_ratio |-> One, start_alpha |-> One,
               warm_start |-> FALSE, t_offset |-> 0]
    /\ warms = 0
    /\ ch = [p |-> P1, Ks |-> <<>>, ks |-> <<>>, uhat |-> <<>>, xhat |-> <<>>]
    /\ chL = NoLocals
    /\ chG = NoGhost
    /\ hs = [branches |-> <<>>, K0 |-> Uninit, k0 |-> Uninit,
             xhat0 |-> Uninit, uhat0 |-> Uninit]
    /\ hsL = NoLocals
    /\ hsG = NoGhost
    /\ tree = NoTree
    /\ bk = NoBackup

NextTree ==
    \/ AddRoot
    \/ AddNodes
    \/ AddNodesFail
    \/ BellmanTreeBackup
    \/ BellmanTreeBackupFail

SpecTree == InitTree /\ [][NextTree]_vars

\* ------------------------------------------------------------ LQR reference

\* The plan node of one stage of a linear-quadratic problem.
LqrNode(p) == make_plan_node(p.A, p.B, p.Q, p.R, One)

\* lqr::LQR::solve: the value matrix at t of the horizon T, from the
\* final cost down, and the feedback gain at t.
RECURSIVE LqrValue(_, _, _)
LqrValue(p, T, t) ==
    IF t = T THEN p.QT
    ELSE compute_value_matrix(
             compute_control_policy(LqrNode(p), LqrValue(p, T, t + 1)),
             LqrValue(p, T, t + 1))

LqrGain(p, T, t) == compute_control_policy(LqrNode(p), LqrValue(p, T, t + 1)).K

\* lqr::LQR::forward_pass: the states and controls under u = K x from x0.
RECURSIVE LqrRollout(_, _, _, _, _)
LqrStep(p, T, t, xs, us, u) ==
    LqrRollout(p, T, t + 1, Append(xs, dynamics(p, xs[t + 1], u)), Append(us, u))

LqrRollout(p, T, t, xs, us) ==
    IF t = T THEN [states |-> xs, controls |-> us]
    ELSE LqrStep(p, T, t, xs, us, RMul(LqrGain(p, T, t), xs[t + 1]))

LqrStates(p, T, x0) == LqrRollout(p, T, 0, <<x0>>, <<>>).states

LqrControls(p, T, x0) == LqrRollout(p, T, 0, <<x0>>, <<>>).controls

\* The total cost of the states xs and controls us.
RECURSIVE LqrCostTo(_, _, _, _)
LqrCostTo(p, xs, us, t) ==
    IF t = 0 THEN Zero
    ELSE RAdd(LqrCostTo(p, xs, us, t - 1), cost(p, xs[t], us[t], t - 1))

LqrCost(p, xs, us) == RAdd(LqrCostTo(p, xs, us, Len(us)), final_cost(p, xs[Len(xs)]))

\* ------------------------------------------------------------ iLQR from the LQR optimum

\* Backward passes run from one LQR initialization.
MaxPasses == 2

\* Linear dynamics with cost 1/2 (Q x^2 + R u^2), Q >= 0 and R > 0, and
\* final cost 1/2 QT x^2.
LqrProblems ==
    {Problem(One, One, One, One, One, Zero, Zero),
     Problem(One, One, One, One, Zero, Zero, Zero),
     Problem(One, One, Zero, One, One, Zero, Zero),
     Problem(One, Num(2), One, Num(4), One, Zero, Zero)}

\* A solver whose nominal trajectory is the LQR optimum from x0.
LqrInitialized(p, T, xs, us) ==
    [p |-> p, Ks |-> Fill(T, Zero), ks |-> Fill(T, Zero), uhat |-> us, xhat |-> xs]

InitLqr ==
    /\ pc = "lqr_nominal"
    /\ \E T \in 2..MaxT, x0 \in {One, Num(-2)}, mu \in {Zero, One} :
          args = [T |-> T, x_init |-> x0, u_nominal |-> Zero, mu |-> mu,
                  max_iters |-> 1, cost_convg_ratio |-> One, start_alpha |-> One,
                  warm_start |-> FALSE, t_offset |-> 0]
    /\ warms = 0
    /\ \E p \in LqrProblems :
          ch = LqrInitialized(p, args.T, LqrStates(p, args.T, args.x_init),
                              LqrControls(p, args.T, args.x_init))
    /\ chL = StartLocals(args)
    /\ chG = NoGhost
    /\ hs = [branches |-> <<>>, K0 |-> Uninit, k0 |-> Uninit,
             xhat0 |-> Uninit, uhat0 |-> Uninit]
    /\ hsL = NoLocals
    /\ hsG = NoGhost
    /\ tree = NoTree
    /\ bk = NoBackup

\* The backward pass over the nominal trajectory.
LqrBackward ==
    /\ pc \in {"lqr_nominal", "lqr_swapped"}
    /\ chG.bwd < MaxPasses
    /\ ch' = backward_pass(ch, args.T, args.mu)
    /\ chG' = [chG EXCEPT !.bwd = chG.bwd + 1]
    /\ pc' = "lqr_backed"
    /\ UNCHANGED <<tree, bk, args, warms, chL, hsVars>>

\* The forward pass at step size 1 into the holders.
LqrForward ==
    /\ pc = "lqr_backed"
    /\ chL' = Searched([chL EXCEPT !.alpha = One],
                       forward_pass(ch, ch.p, args.x_init, One))
    /\ chG' = [chG EXCEPT !.fwd = chG.fwd + 1]
    /\ pc' = "lqr_rolled"
    /\ UNCHANGED <<tree, bk, args, warms, ch, hsVars>>

\* The rollout becomes the nominal trajectory.
LqrSwap ==
    /\ pc = "lqr_rolled"
    /\ ch' = ChSwap
    /\ chL' = [chL EXCEPT !.xhat_new = ch.xhat, !.uhat_new = ch.uhat,
                          !.old_cost = chL.new_cost]
    /\ pc' = "lqr_swapped"
    /\ UNCHANGED <<tree, bk, args, warms, chG, hsVars>>

NextLqr ==
    \/ LqrBackward
    \/ LqrForward
    \/ LqrSwap

SpecLqr == InitLqr /\ [][NextLqr]_vars


\* ------------------------------------------------------------ one-step backup on matrices

\* Eigen matrices of doubles: a matrix is the sequence of its rows, a
\* vector a matrix of one column. xdim = 2 and udim = 1 here, so that
\* transposes and the order of products matter.
MAdd(a, b) ==
    [i \in 1..Len(a) |-> [j \in 1..Len(a[1]) |-> RAdd(a[i][j], b[i][j])]]

MScale(c, a) ==
    [i \in 1..Len(a) |-> [j \in 1..Len(a[1]) |-> RMul(c, a[i][j])]]

MTranspose(a) ==
    [j \in 1..Len(a[1]) |-> [i \in 1..Len(a) |-> a[i][j]]]

\* Row i of a times column j of b, over the first n terms.
RECURSIVE MDot(_, _, _, _, _)
MDot(a, b, i, j, n) ==
    IF n = 0 THEN Zero
    ELSE RAdd(MDot(a, b, i, j, n - 1), RMul(a[i][n], b[n][j]))

MMul(a, b) ==
    [i \in 1..Len(a) |-> [j \in 1..Len(b[1]) |-> MDot(a, b, i, j, Len(b))]]

MIdentity(n) ==
    [i \in 1..n |-> [j \in 1..n |-> IF i = j THEN One ELSE Zero]]

\* .inverse() of a udim x udim matrix, udim = 1.
MInverse(a) == <<<<RDiv(One, a[1][1])>>>>

\* Vt and Gt from the gains Kt, kt and the value function at t + 1;
\* tmp = A + B Kt.
m_ValueUpdate(A, B, q, Vt1, Gt1, Kt, kt) ==
    CHOOSE b \in
        {[Kt |-> Kt, kt |-> kt,
          Vt |-> MAdd(MAdd(q.Q, MScale(Num(2), MMul(q.P, Kt))),
                      MAdd(MMul(MTranspose(Kt), MMul(q.R, Kt)),
                           MMul(MTranspose(tmp), MMul(Vt1, tmp)))),
          Gt |-> MAdd(MAdd(MAdd(MMul(MTranspose(kt), MTranspose(q.P)),
                                MMul(MTranspose(kt), MMul(q.R, Kt))),
                           MAdd(MTranspose(q.g_x), MMul(MTranspose(q.g_u), Kt))),
                      MAdd(MMul(MTranspose(kt),
                                MMul(MTranspose(B), MMul(Vt1, tmp))),
                           MMul(Gt1, tmp)))] :
            tmp \in {MAdd(A, MMul(B, Kt))}} : TRUE

\* Kt and kt from inv_term and the LM-inflated value matrix VLM.
m_Gains(lin, q, VLM, Vt1, Gt1, inv_term) ==
    CHOOSE b \in
        {m_ValueUpdate(lin.A, lin.B, q, Vt1, Gt1, Kt, kt) :
            Kt \in {MMul(inv_term,
                         MAdd(MTranspose(q.P),
                              MMul(MTranspose(lin.B), MMul(VLM, lin.A))))},
            kt \in {MMul(inv_term,
                         MAdd(q.g_u,
                              MMul(MTranspose(lin.B), MTranspose(Gt1))))}} : TRUE

m_BackupAt(lin, q, VLM, Vt1, Gt1) ==
    CHOOSE b \in
        {m_Gains(lin, q, VLM, Vt1, Gt1, inv_term) :
            inv_term \in
                {MScale(Num(-1),
                        MInverse(MAdd(q.R,
                                      MMul(MTranspose(lin.B),
                                           MMul(VLM, lin.B)))))}} : TRUE

\* Mutant: the inflated value matrix also propagates the value function.
m_bellman_backup_Inflated(lin, q, mu, Vt1, Gt1) ==
    CHOOSE b \in
        {m_BackupAt(lin, q, VLM, VLM, Gt1) :
            VLM \in {MAdd(Vt1, MScale(mu, MIdentity(Len(Vt1))))}} : TRUE

\* bellman_backup past linearize_dynamics and quadratize_cost, which gave
\* lin = (A, B) and q = (Q, R, P, g_x, g_u); LM = mu * Identity.
m_bellman_backup(lin, q, mu, Vt1, Gt1) ==
    CHOOSE b \in
        {m_BackupAt(lin, q, MAdd(Vt1, LM), Vt1, Gt1) :
            LM \in {MScale(mu, MIdentity(Len(Vt1)))}} : TRUE

\* Jacobians of the dynamics: a double integrator and a coupled system.
Linearizations ==
    {[A |-> a, B |-> b] :
        a \in {<<<<One, One>>, <<Zero, One>>>>, <<<<One, Zero>>, <<One, Num(2)>>>>},
        b \in {<<<<Zero>>, <<One>>>>, <<<<One>>, <<Num(-1)>>>>}}

\* Hessian blocks and gradients of the running cost: Q and R symmetric,
\* R > 0, with and without a cross term P.
Quadratizations ==
    {[Q |-> Q, R |-> R, P |-> P, g_x |-> g_x, g_u |-> g_u] :
        Q \in {<<<<One, Zero>>, <<Zero, One>>>>, <<<<Num(2), One>>, <<One, One>>>>},
        R \in {<<<<One>>>>, <<<<Num(2)>>>>},
        P \in {<<<<Zero>>, <<Zero>>>>, <<<<One>>, <<Zero>>>>, <<<<One>>, <<Num(2)>>>>},
        g_x \in {<<<<Zero>>, <<Zero>>>>, <<<<One>>, <<Num(-1)>>>>},
        g_u \in {<<<<Zero>>>>, <<<<One>>>>}}

\* Value functions at t + 1: V symmetric and positive semidefinite.
NextValues ==
    {[V |-> V, G |-> G] :
        V \in {<<<<One, Zero>>, <<Zero, One>>>>, <<<<Num(2), One>>, <<One, One>>>>,
               <<<<Zero, Zero>>, <<Zero, Zero>>>>},
        G \in {<<<<Zero, Zero>>>>, <<<<One, Num(2)>>>>}}

\* The LM parameter mu >= 0.
Dampings == {Zero, Half, One}

\* The arguments of one bellman_backup call and what linearize_dynamics
\* and quadratize_cost give it.
BackupInputs ==
    {[op |-> "input", lin |-> lin, q |-> q, mu |-> mu,
      Vt1 |-> next.V, Gt1 |-> next.G] :
        lin \in Linearizations, q \in Quadratizations, mu \in Dampings,
        next \in NextValues}

\* The bellman_backup call; bk keeps its inputs and what it returned.
BellmanBackup ==
    /\ bk.op = "input"
    /\ \E out \in {m_bellman_backup(bk.lin, bk.q, bk.mu, bk.Vt1, bk.Gt1)} :
          bk' = [op |-> "backup", lin |-> bk.lin, q |-> bk.q, mu |-> bk.mu,
                 Vt1 |-> bk.Vt1, Gt1 |-> bk.Gt1, out |-> out]
    /\ UNCHANGED <<solverVars, tree>>

InitBackup ==
    /\ pc = "new"
    /\ args = [T |-> 0, x_init |-> Zero, u_nominal |-> One, mu |-> Zero,
               max_iters |-> 1, cost_convg_ratio |-> One, start_alpha |-> One,
               warm_start |-> FALSE, t_offset |-> 0]
    /\ warms = 0
    /\ ch = [p |-> P1, Ks |-> <<>>, ks |-> <<>>, uhat |-> <<>>, xhat |-> <<>>]
    /\ chL = NoLocals
    /\ chG = NoGhost
    /\ hs = [branches |-> <<>>, K0 |-> Uninit, k0 |-> Uninit,
             xhat0 |-> Uninit, uhat0 |-> Uninit]
    /\ hsL = NoLocals
    /\ hsG = NoGhost
    /\ tree = NoTree
    /\ bk \in BackupInputs

NextBackup == BellmanBackup

SpecBackup == InitBackup /\ [][NextBackup]_vars
\* ------------------------------------------------------------ properties, continued

\* C11 as stated: a horizon of T = 1 is rejected by both solvers: neither
\* the single-chain solve() nor the hindsight solve() runs unless T >= 2.
C11_HorizonOneRejected ==
    /\ ChRunning => args.T >= 2
    /\ HsRunning => args.T >= 2

\* A double that is neither NaN nor infinite.
IsFinite(a) == a[2] # 0

\* The line search has a rollout whose total cost is not finite.
NonFiniteRollout(l) == l.tries >= 1 /\ ~IsFinite(l.new_cost)

\* C12 as stated: if a forward pass inside solve() produces a non-finite
\* total cost, solve() aborts with an error; it neither goes on with the
\* line search nor commits the rollout.
C12_NonFiniteCostAborts ==
    [][/\ (pc = "ch_search" /\ NonFiniteRollout(chL)) =>
              (chG'.out = "error" /\ ch' = ch)
       /\ (pc = "hs_search" /\ NonFiniteRollout(hsL)) =>
              (hsG'.out = "error" /\ hs' = hs)]_vars

\* The LM-inflated control Hessian R + B^T (V_{t+1} + mu I) B of the
\* backup at t.
ControlHessian(s, t, mu, Vt1) ==
    RAdd(quadratize_cost(s.p, t, s.xhat[t + 1], s.uhat[t + 1]).R,
         RMul(linearize_dynamics(s.p, s.xhat[t + 1], s.uhat[t + 1]).B,
              RMul(RAdd(Vt1, mu),
                   linearize_dynamics(s.p, s.xhat[t + 1], s.uhat[t + 1]).B)))

\* Some backup of the sweep t, t-1, ..., 0 meets a control Hessian that
\* is not invertible.
RECURSIVE SingularHessian(_, _, _, _, _)
SingularHessian(s, t, mu, Vt1, Gt1) ==
    /\ t >= 0
    /\ \/ ControlHessian(s, t, mu, Vt1) = Zero
       \/ SingularHessian(s, t - 1, mu, bellman_backup(s, t, mu, Vt1, Gt1).Vt,
                          bellman_backup(s, t, mu, Vt1, Gt1).Gt)

\* The backward pass the single chain is about to run meets one.
ChSingular ==
    /\ pc = "ch_back"
    /\ SingularHessian(ch, args.T - 1, args.mu,
                       quadratize_final_cost(ch.p, ch.xhat[args.T + 1]).Q,
                       quadratize_final_cost(ch.p, ch.xhat[args.T + 1]).g)

\* Every stored gain is a finite number.
FiniteGains(s) ==
    \A t \in 1..Len(s.Ks) : IsFinite(s.Ks[t]) /\ IsFinite(s.ks[t])

\* C13 as stated: when the LM-inflated control Hessian of a backup is not
\* invertible, the backup fails, the current solve() aborts, and no gains
\* computed from that matrix are stored.
C13_SingularHessianAborts ==
    [][ChSingular => (chG'.out = "error" /\ FiniteGains(ch'))]_vars

\* What a caller can read from a single-branch hindsight solver after
\* solve() is what it can read from the single chain.
SameSolverState ==
    /\ Len(hs.branches) = 1
    /\ hs.branches[1].p = ch.p
    /\ hs.branches[1].probability = One
    /\ hs.branches[1].xhat = ch.xhat
    /\ hs.branches[1].uhat = ch.uhat
    /\ hs.branches[1].Ks = ch.Ks
    /\ hs.branches[1].ks = ch.ks

\* C14 as stated: a solve() that exhausts max_iters returns normally with
\* the last accepted rollout, and the caller can tell this outcome from a
\* return through the convergence test: two solve() calls with the same
\* arguments that leave the same solver state ended the same way.
C14_ExhaustionDistinguishable ==
    /\ (Returned(chG) /\ chG.out = "exhausted") => chL.iter = args.max_iters
    /\ (Returned(hsG) /\ hsG.out = "exhausted") => hsL.iter = args.max_iters
    /\ (BothReturned /\ SameSolverState) => chG.out = hsG.out

\* The feedforward gains are all zero: the rollout is the same at every
\* step size.
SameAtEveryStep(ks) == \A t \in 1..Len(ks) : ks[t] = Zero

\* A line search that cannot end: its rollout has a finite cost, is
\* rejected, and every smaller step size produces the same rollout.
ChSearchStuck ==
    /\ pc = "ch_search"
    /\ chL.tries >= 1
    /\ IsFinite(chL.new_cost)
    /\ KeepSearching(chL, args)
    /\ SameAtEveryStep(ch.ks)

HsSearchStuck ==
    /\ pc = "hs_search"
    /\ hsL.tries >= 1
    /\ IsFinite(hsL.new_cost)
    /\ KeepSearching(hsL, args)
    /\ hs.k0 = Zero
    /\ \A n \in 1..Len(hs.branches) : SameAtEveryStep(hs.branches[n].ks)

\* C19 as stated: with finite rollout costs every line search terminates:
\* the first outer iteration accepts its first rollout, at start_alpha,
\* and no later line search meets a rollout of finite cost that it rejects
\* at this and every smaller step size.
C19_LineSearchTerminates ==
    /\ (pc = "ch_search" /\ chL.iter = 0 /\ chL.tries >= 1 /\ IsFinite(chL.new_cost))
           => (chL.tries = 1 /\ ~KeepSearching(chL, args))
    /\ (pc = "hs_search" /\ hsL.iter = 0 /\ hsL.tries >= 1 /\ IsFinite(hsL.new_cost))
           => (hsL.tries = 1 /\ ~KeepSearching(hsL, args))
    /\ ~ChSearchStuck
    /\ ~HsSearchStuck

\* start_alpha * 0.5^j
RECURSIVE StepSize(_, _)
StepSize(a, j) == IF j = 0 THEN a.start_alpha ELSE RMul(StepSize(a, j - 1), Half)

\* The acceptance test of the line search on the rollout it holds.
Accepts(l, a) ==
    RLess(l.new_cost, l.old_cost) \/ RLess(l.ratio, a.cost_convg_ratio)

\* The rollout the single chain holds after its j-th pass is the one at
\* start_alpha * 0.5^(j-1), with its cost and ratio.
ChHoldsRollout ==
    (pc = "ch_search" /\ chL.tries >= 1) =>
        /\ chL.xhat_new =
              forward_pass(ch, ch.p, args.x_init, StepSize(args, chL.tries - 1)).states
        /\ chL.uhat_new =
              forward_pass(ch, ch.p, args.x_init, StepSize(args, chL.tries - 1)).controls
        /\ chL.new_cost =
              forward_pass(ch, ch.p, args.x_init, StepSize(args, chL.tries - 1)).cost
        /\ chL.ratio = RAbs(RDiv(RSub(chL.old_cost, chL.new_cost), chL.new_cost))

\* The expected cost the hindsight solver holds after its j-th pass is the
\* one of the branches' rollouts at start_alpha * 0.5^(j-1).
HsHoldsRollout ==
    (pc = "hs_search" /\ hsL.tries >= 1) =>
        /\ hsL.new_cost =
              ExpectedCost(hs, Len(hs.branches), args.x_init,
                           StepSize(args, hsL.tries - 1)).cost
        /\ hsL.ratio = RAbs(RDiv(RSub(hsL.old_cost, hsL.new_cost), hsL.new_cost))

\* The single chain ends its line search with a commit.
ChCommits == pc = "ch_search" /\ pc' \in {"ch_back", "hs_entry"} /\ chG'.out # "error"

\* The hindsight solver ends its line search with a commit.
HsCommits == pc = "hs_search" /\ pc' \in {"hs_back", "ret"} /\ hsG'.out # "error"

\* Every branch of h2 holds its rollout from h at step size alpha.
BranchesRolledOut(h, h2, x_init, alpha) ==
    /\ Len(h2.branches) = Len(h.branches)
    /\ \A n \in 1..Len(h.branches) :
          /\ h2.branches[n].xhat = h_forward_pass(h, n, x_init, alpha).states
          /\ h2.branches[n].uhat = h_forward_pass(h, n, x_init, alpha).controls

\* C18: in each outer iteration the line search tries the step sizes
\* start_alpha * 0.5^j, j = 0, 1, 2, ... in that order, goes on to the next
\* only when the rollout fails new_cost < old_cost and ratio <
\* cost_convg_ratio, and commits at the first that passes; the committed
\* nominal trajectory is the rollout at that step size, in the hindsight
\* solver every branch's rollout at that step size from the gains and the
\* nominal trajectory it had before the commit.
C18_LineSearchOrderAndCommit ==
    /\ [](ChHoldsRollout /\ HsHoldsRollout)
    /\ [][/\ (pc = "ch_search" /\ pc' = "ch_search" /\ chL.tries >= 1)
                 => ~Accepts(chL, args)
          /\ (pc = "hs_search" /\ pc' = "hs_search" /\ hsL.tries >= 1)
                 => ~Accepts(hsL, args)
          /\ ChCommits =>
                 /\ Accepts(chL, args)
                 /\ ch'.xhat = chL.xhat_new
                 /\ ch'.uhat = chL.uhat_new
          /\ HsCommits =>
                 /\ Accepts(hsL, args)
                 /\ BranchesRolledOut(hs, hs', args.x_init,
                                      StepSize(args, hsL.tries - 1))]_vars

\* The hindsight solver, with two different branches, has committed a
\* rollout at a step size it reached after a rejected one, and so has the
\* single chain.
C18_Witness ==
    /\ pc = "ret"
    /\ Len(hs.branches) = 2
    /\ hs.branches[1].p # hs.branches[2].p
    /\ \E i \in 1..Len(hsG.alphas) : hsG.alphas[i] = RMul(args.start_alpha, Half)
    /\ \E i \in 1..Len(chG.alphas) : chG.alphas[i] = RMul(args.start_alpha, Half)
    /\ args.start_alpha # Zero

\* The sum of a sequence of doubles, accumulated from zero.
RECURSIVE SeqSum(_)
SeqSum(s) == IF s = <<>> THEN Zero ELSE RAdd(SeqSum(SubSeq(s, 1, Len(s) - 1)), s[Len(s)])

\* The backups t = T-1, ..., 1 of one branch from its final cost, by the
\* recursion of the single chain: the gains they store and (V_1, g_1).
BoundarySweep(branch, T, mu) ==
    Sweep(branch, T - 1, 1, mu,
          quadratize_final_cost(branch.p, branch.xhat[T + 1]).Q,
          quadratize_final_cost(branch.p, branch.xhat[T + 1]).g)

\* Sum over the branches of probability * f, f from the branch's
\* derivatives at the shared first stage and its (V_1, g_1).
Weighted(h, T, mu, f(_, _, _)) ==
    SeqSum([n \in 1..Len(h.branches) |->
               RMul(h.branches[n].probability,
                    f(linearize_dynamics(h.branches[n].p, h.xhat0, h.uhat0),
                      quadratize_cost(h.branches[n].p, 0, h.xhat0, h.uhat0),
                      BoundarySweep(h.branches[n], T, mu)))])

\* -(sum p R + sum p B^T (V_1 + mu I) B)^-1
MergedInverse(h, T, mu) ==
    RMul(Num(-1),
         RDiv(One, RAdd(Weighted(h, T, mu, LAMBDA lin, q, b : q.R),
                        Weighted(h, T, mu, LAMBDA lin, q, b :
                                     RMul(lin.B, RMul(RAdd(b.V, mu), lin.B))))))

\* The shared gains of the merge at t = 0 from every branch's (V_1, g_1).
MergedK0(h, T, mu) ==
    RMul(MergedInverse(h, T, mu),
         RAdd(Weighted(h, T, mu, LAMBDA lin, q, b : q.P),
              Weighted(h, T, mu, LAMBDA lin, q, b :
                           RMul(lin.B, RMul(RAdd(b.V, mu), lin.A)))))

Mergedk0(h, T, mu) ==
    RMul(MergedInverse(h, T, mu),
         RAdd(Weighted(h, T, mu, LAMBDA lin, q, b : q.g_u),
              Weighted(h, T, mu, LAMBDA lin, q, b : RMul(lin.B, b.G))))

\* The per-branch sweeps of the backward pass about to run leave slot 0 of
\* every branch's gains as it is.
SweepsKeepFirstGains ==
    pc = "hs_back" =>
        \A n \in 1..Len(hs.branches) :
            /\ BranchBackups(hs, args.T, args.mu)[n].branch.Ks[1] = hs.branches[n].Ks[1]
            /\ BranchBackups(hs, args.T, args.mu)[n].branch.ks[1] = hs.branches[n].ks[1]

\* C20: in every hindsight backward pass each branch's sweep runs from
\* t = T-1 down to t = 1 and never writes that branch's gains at t = 0; the
\* merge at t = 0 computes K0, k0 from the boundary pair (V_1, g_1) of
\* every branch, and K0, k0 are then copied into slot 0 of every branch.
C20_SweepsThenMergeThenCopy ==
    /\ []SweepsKeepFirstGains
    /\ [][(pc = "hs_back" /\ hsG'.out # "error") =>
             /\ \A n \in 1..Len(hs.branches) : \A t \in 2..args.T :
                   /\ hs'.branches[n].Ks[t] =
                          BoundarySweep(hs.branches[n], args.T, args.mu).s.Ks[t]
                   /\ hs'.branches[n].ks[t] =
                          BoundarySweep(hs.branches[n], args.T, args.mu).s.ks[t]
             /\ hs'.K0 = MergedK0(hs, args.T, args.mu)
             /\ hs'.k0 = Mergedk0(hs, args.T, args.mu)
             /\ \A n \in 1..Len(hs.branches) :
                   /\ hs'.branches[n].Ks[1] = hs'.K0
                   /\ hs'.branches[n].ks[1] = hs'.k0]_vars

\* A backward pass over two different branches and three stages is done:
\* the shared gains differ from what slot 0 held before, and the branches
\* differ in their gains at t = 1.
C20_Witness ==
    /\ pc = "hs_loop"
    /\ hsG.bwd >= 1
    /\ args.T = 3
    /\ Len(hs.branches) = 2
    /\ hs.branches[1].p # hs.branches[2].p
    /\ hs.branches[1].Ks[2] # hs.branches[2].Ks[2]
    /\ hs.branches[1].Ks[1] = hs.K0
    /\ hs.branches[2].Ks[1] = hs.K0
    /\ hs.K0 # Zero

\* The children of node i, in the order they were added.
Children(nodes, i) == SelectSeq([j \in 1..Len(nodes) |-> j], LAMBDA j : nodes[j].parent = i)

\* The sum of the probabilities of the children of node i.
ChildrenProbability(nodes, i) ==
    SeqSum([k \in 1..Len(Children(nodes, i)) |->
               nodes[Children(nodes, i)[k]].item.probability])

\* C15 as stated: after any sequence of add_root and add_nodes calls,
\* several add_nodes calls on one parent included, the probabilities of the
\* children of every node that has children sum to 1 within 1e-5.
C15_ChildrenSumToOne ==
    \A i \in 1..Len(tree.nodes) :
        ~IsLeaf(tree.nodes, i) =>
            RLeq(RAbs(RSub(ChildrenProbability(tree.nodes, i), One)), Rat(1, 100000))

\* Node i after the backup, as a leaf: K = 0 and V = Q.
LeafBackedUp(node) == node.K = Zero /\ node.V = node.Q

\* Vt of node i: the sum over all its children of p_child * V_child.
ChildrenValue(nodes, i) ==
    SeqSum([k \in 1..Len(Children(nodes, i)) |->
               RMul(nodes[Children(nodes, i)[k]].item.probability,
                    nodes[Children(nodes, i)[k]].item.V)])

\* Node i after the backup, as an internal node with the value Vt below it.
InternalBackedUp(node, Vt) ==
    /\ node.K = RMul(Num(-1),
                     RMul(RDiv(One, RAdd(node.R, RMul(node.B, RMul(Vt, node.B)))),
                          RMul(node.B, RMul(Vt, node.A))))
    /\ node.V = RAdd(RAdd(node.Q, RMul(node.K, RMul(node.R, node.K))),
                     RMul(RAdd(node.A, RMul(node.B, node.K)),
                          RMul(Vt, RAdd(node.A, RMul(node.B, node.K)))))

\* C16: after bellman_tree_backup on a tree whose leaves are all at one
\* depth, every leaf has K = 0 and V = Q, and every internal node, the root
\* included, has K = -(R + B^T Vt B)^-1 (B^T Vt A) and
\* V = Q + K^T R K + (A+BK)^T Vt (A+BK), Vt the sum over all of the node's
\* children of p_child * V_child.
C16_BackupValues ==
    tree.out = "backed" =>
        \A i \in 1..Len(tree.nodes) :
            IF IsLeaf(tree.nodes, i)
            THEN LeafBackedUp(tree.nodes[i].item)
            ELSE InternalBackedUp(tree.nodes[i].item, ChildrenValue(tree.nodes, i))

\* A backed-up tree of three levels: the root has two children of
\* different probabilities and values, each with a child of its own.
C16_Witness ==
    /\ tree.out = "backed"
    /\ Len(tree.nodes) = 5
    /\ tree.nodes[2].parent = 1 /\ tree.nodes[3].parent = 1
    /\ tree.nodes[4].parent = 2 /\ tree.nodes[5].parent = 3
    /\ tree.nodes[2].item.probability = Rat(2, 5)
    /\ tree.nodes[2].item.V # tree.nodes[3].item.V
    /\ tree.nodes[1].item.K # Zero

\* The rollout in the holders is the LQR solution of the problem.
RolloutIsLqr ==
    /\ chL.xhat_new = LqrStates(ch.p, args.T, args.x_init)
    /\ chL.uhat_new = LqrControls(ch.p, args.T, args.x_init)
    /\ chL.new_cost = LqrCost(ch.p, LqrStates(ch.p, args.T, args.x_init),
                              LqrControls(ch.p, args.T, args.x_init))

\* C17: for linear dynamics and a quadratic cost, Q positive semidefinite
\* and R positive definite, with the nominal trajectory initialized at the
\* exact LQR optimum, one backward pass followed by one forward pass
\* reproduces the LQR states, controls and total cost, and a further
\* backward and forward pass leaves states, controls and cost unchanged.
C17_LqrOptimumIsFixedPoint ==
    pc = "lqr_rolled" =>
        /\ RolloutIsLqr
        /\ chL.xhat_new = ch.xhat
        /\ chL.uhat_new = ch.uhat
        /\ chG.fwd >= 2 => chL.new_cost = chL.old_cost

\* The second backward and forward pass is done, over three stages with
\* feedback gains, controls and a cost that are not zero.
C17_Witness ==
    /\ pc = "lqr_rolled"
    /\ chG.fwd = 2
    /\ args.T = 3
    /\ args.mu = Zero
    /\ ch.Ks[1] = LqrGain(ch.p, args.T, 0)
    /\ ch.Ks[1] # Zero
    /\ chL.uhat_new[1] # Zero
    /\ chL.new_cost # Zero


\* ------------------------------------------------------------ claims C21..C25

\* R + B^T (V_{t+1} + mu I) B of the backup bk holds.
InflatedHessian(b) ==
    MAdd(b.q.R,
         MMul(MTranspose(b.lin.B),
              MMul(MAdd(b.Vt1, MScale(b.mu, MIdentity(2))), b.lin.B)))

\* A + B K_t of the backup bk holds.
ClosedLoop(b) == MAdd(b.lin.A, MMul(b.lin.B, b.out.Kt))

\* C21: in the one-step backup mu I enters only the control solve:
\* (R + B^T (V_{t+1} + mu I) B) K_t = -(P^T + B^T (V_{t+1} + mu I) A) and
\* (R + B^T (V_{t+1} + mu I) B) k_t = -(g_u + B^T g_{t+1}^T), while V_t and
\* g_t are formed with V_{t+1} itself, for every mu >= 0.
C21_DampingOnlyInControlSolve ==
    bk.op = "backup" =>
        /\ MMul(InflatedHessian(bk), bk.out.Kt) =
               MScale(Num(-1),
                      MAdd(MTranspose(bk.q.P),
                           MMul(MTranspose(bk.lin.B),
                                MMul(MAdd(bk.Vt1, MScale(bk.mu, MIdentity(2))),
                                     bk.lin.A))))
        /\ MMul(InflatedHessian(bk), bk.out.kt) =
               MScale(Num(-1),
                      MAdd(bk.q.g_u,
                           MMul(MTranspose(bk.lin.B), MTranspose(bk.Gt1))))
        /\ bk.out.Vt =
               MAdd(MAdd(bk.q.Q, MScale(Num(2), MMul(bk.q.P, bk.out.Kt))),
                    MAdd(MMul(MTranspose(bk.out.Kt), MMul(bk.q.R, bk.out.Kt)),
                         MMul(MTranspose(ClosedLoop(bk)),
                              MMul(bk.Vt1, ClosedLoop(bk)))))
        /\ bk.out.Gt =
               MAdd(MAdd(MAdd(MMul(MTranspose(bk.out.kt), MTranspose(bk.q.P)),
                              MMul(MTranspose(bk.out.kt), MMul(bk.q.R, bk.out.Kt))),
                         MAdd(MTranspose(bk.q.g_x),
                              MMul(MTranspose(bk.q.g_u), bk.out.Kt))),
                    MAdd(MMul(MTranspose(bk.out.kt),
                              MMul(MTranspose(bk.lin.B),
                                   MMul(bk.Vt1, ClosedLoop(bk)))),
                         MMul(bk.Gt1, ClosedLoop(bk))))

\* A backup with mu > 0, a cross term and a value function that is not
\* zero has run: inflating V_{t+1} in the value propagation would have
\* given another V_t.
C21_Witness ==
    /\ bk.op = "backup"
    /\ bk.mu = One
    /\ bk.q.P = <<<<One>>, <<Num(2)>>>>
    /\ bk.Vt1 = <<<<Num(2), One>>, <<One, One>>>>
    /\ bk.Gt1 = <<<<One, Num(2)>>>>
    /\ bk.out.Kt # <<<<Zero, Zero>>>>
    /\ bk.out.kt # <<<<Zero>>>>

\* V = V^T
IsSymmetric(V) == V = MTranspose(V)

\* C22 as stated: the value matrix V_t returned by every one-step backup is
\* symmetric, for any symmetric V_{t+1}, Q, R and any cross term P.
C22_ValueMatrixSymmetric ==
    (bk.op = "backup" /\ IsSymmetric(bk.Vt1) /\ IsSymmetric(bk.q.Q)
                      /\ IsSymmetric(bk.q.R))
        => IsSymmetric(bk.out.Vt)

\* Hbar = sum_b p_b (R_b + B_b^T (V_1^b + mu I) B_b)
Hbar(h, T, mu) ==
    Weighted(h, T, mu, LAMBDA lin, q, b :
        RAdd(q.R, RMul(lin.B, RMul(RAdd(b.V, mu), lin.B))))

\* Mbar = sum_b p_b (P_b^T + B_b^T (V_1^b + mu I) A_b)
Mbar(h, T, mu) ==
    Weighted(h, T, mu, LAMBDA lin, q, b :
        RAdd(q.P, RMul(lin.B, RMul(RAdd(b.V, mu), lin.A))))

\* mbar = sum_b p_b (B_b^T (g_1^b)^T + g_u^b)
mbar(h, T, mu) ==
    Weighted(h, T, mu, LAMBDA lin, q, b : RAdd(RMul(lin.B, b.G), q.g_u))

C24_IncreaseOnlyInLastIteration ==
    [][/\ (ChCommits /\ pc' = "ch_back") => RLess(chL.new_cost, chL.old_cost)
       /\ (ChCommits /\ ~RLess(chL.new_cost, chL.old_cost)) =>
              (chG'.out = "converged" /\ pc' = "hs_entry")
       /\ (HsCommits /\ pc' = "hs_back") => RLess(hsL.new_cost, hsL.old_cost)
       /\ (HsCommits /\ ~RLess(hsL.new_cost, hsL.old_cost)) =>
              (hsG'.out = "converged" /\ pc' = "ret")]_vars

\* The hindsight solver goes on to a backward pass after its second
\* accepted cost, which is below the first.
C24_Witness ==
    /\ pc = "hs_back"
    /\ Len(hsG.acc) >= 2
    /\ RLess(hsG.acc[Len(hsG.acc)], hsG.acc[Len(hsG.acc) - 1])
    /\ hsL.old_cost = hsG.acc[Len(hsG.acc)]

\* The leaves of the tree are all at one depth.
LeavesAtOneDepth(nodes) ==
    \A i, j \in 1..Len(nodes) :
        (IsLeaf(nodes, i) /\ IsLeaf(nodes, j)) => nodes[i].depth = nodes[j].depth

\* The depth of the leaves.
LeafDepth(nodes) ==
    nodes[CHOOSE i \in 1..Len(nodes) : IsLeaf(nodes, i)].depth

\* The passes of the log that gave node i its K and V.
PassesOf(log, i) == {k \in 1..Len(log) : i \in log[k]}

\* The log of a backup that returned: the pass over the leaves and d
\* rounds, every node in exactly one pass, after all of its children.
BackupLogOk(nodes, log) ==
    /\ Len(log) = LeafDepth(nodes) + 1
    /\ \A i \in 1..Len(nodes) : Cardinality(PassesOf(log, i)) = 1
    /\ \A i, j \in 1..Len(nodes) :
          nodes[j].parent = i =>
              \A ki \in PassesOf(log, i), kj \in PassesOf(log, j) : kj < ki

\* C25: bellman_tree_backup ends on every tree with a root; when the
\* leaves are all at one depth d it makes the pass over the leaves and
\* exactly d rounds of backup_to_parents, gives every node its (K, V)
\* exactly once, and a node only after all of its children; when the leaves
\* are at different depths it throws instead.
C25_BackupRoundsAndOrder ==
    /\ [](tree.out = "backed" =>
             (LeavesAtOneDepth(tree.nodes) /\ BackupLogOk(tree.nodes, tree.log)))
    /\ [](tree.out = "threw" => ~LeavesAtOneDepth(tree.nodes))
    /\ [][(tree.nodes # <<>> /\ tree' # tree /\ tree'.out \in {"backed", "threw"}) =>
              (tree'.out = "backed" <=> LeavesAtOneDepth(tree.nodes))]_vars

\* A tree of three levels and five nodes is backed up in three passes: the
\* two leaves, their parents, the root.
C25_Witness ==
    /\ tree.out = "backed"
    /\ Len(tree.nodes) = 5
    /\ tree.log = <<{4, 5}, {2, 3}, {1}>>
====
